---- MODULE Spec2Model ----
(***************************************************************************)
(* State-machine model of the AtomSpace hypergraph store                   *)
(* (src/atomspace.c), its binary snapshot codec                            *)
(* (src/atomspace_persistence.c) and the replication manager               *)
(* (src/distributed_atomspace.c).                                          *)
(*                                                                         *)
(* Pointers are modelled by addresses: an atom's address is the pair       *)
(* (owning store, ordinal of the allocation in that store).  A hash table  *)
(* is a function defined on its non-empty buckets only; a bucket chain is  *)
(* a sequence, head of the chain first.  C strings are sequences of        *)
(* character codes.  A pointer is a sequence of length at most one: NULL   *)
(* is the empty sequence and a pointer to x is <<x>>, so that a NULL name   *)
(* is a value distinct from a pointer to the empty string.                  *)
(* A float or double is carried as the exact fraction                      *)
(* <<numerator, denominator>>, in lowest terms, of the value it holds;     *)
(* each arithmetic operation rounds its exact result to the nearest value  *)
(* of its type, ties to even.  Exponent range is not modelled: no value of *)
(* the model is near overflow or underflow.                                *)
(***************************************************************************)
EXTENDS Integers, Sequences, FiniteSets, TLC

VARIABLES
    spaces,     \* store id -> struct atom_space, or NULL when not created
    file,       \* the snapshot file written by atomspace_save_binary, or NULL
    now,        \* the value time(NULL) returns
    wire,       \* send_atom / receive_atom: the atom, the bytes in flight
    das,        \* struct distributed_atomspace, the replication manager
    next_id,    \* the static node id counter of distributed_atomspace_add_node
    socks,      \* the descriptors of the sockets opened by connect_to_node
    res,        \* the last resolve_conflict call and the pointer it returned
    pln,        \* a pln_context_create / pln_apply_revision call sequence
    pst         \* the statics of atomspace_persistence.c, the learning file

vars == <<spaces, file, now, wire, das, next_id, socks, res, pln, pst>>

(* The state of the library modules beside the store, the wire and the     *)
(* replication manager.                                                    *)
libVars == <<pln, pst>>

(* static struct persistence_config *global_config = NULL;                 *)
(* static time_t last_auto_save = 0; no file at the learning path.         *)
InitLib ==
    /\ pln = <<>>
    /\ pst = [global_config |-> <<>>, last_auto_save |-> 0,
              learning |-> <<>>]

NULL == <<>>
Ptr(x) == <<x>>
Deref(p) == p[1]

(***************************************************************************)
(* Fractions.                                                              *)
(***************************************************************************)
RECURSIVE Gcd(_, _)
Gcd(a, b) == IF b = 0 THEN a ELSE Gcd(b, a % b)

Q(n, d) == LET g == Gcd(n, d) IN <<n \div g, d \div g>>

Less(x, y) ==
    LET g == Gcd(x[2], y[2])
    IN  x[1] * (y[2] \div g) < y[1] * (x[2] \div g)

(* Exact sum, product and quotient of two non-negative fractions.          *)
RatAdd(x, y) ==
    LET g == Gcd(x[2], y[2])
    IN  Q(x[1] * (y[2] \div g) + y[1] * (x[2] \div g), x[2] * (y[2] \div g))

RatMul(x, y) ==
    LET g1 == Gcd(x[1], y[2])
        g2 == Gcd(y[1], x[2])
    IN  <<(x[1] \div g1) * (y[1] \div g2), (x[2] \div g2) * (y[2] \div g1)>>

RatDiv(x, y) == RatMul(x, <<y[2], y[1]>>)

FLT_MANT_DIG == 24      \* significand bits of float
DBL_MANT_DIG == 53      \* significand bits of double

Pow2(k) == 2 ^ k

(* <<a, b, e>> with b <= a < 2b and a/b = (n/d) / 2^e, for n/d > 0         *)
RECURSIVE Normalize(_, _, _)
Normalize(a, b, e) ==
    IF a < b THEN Normalize(2 * a, b, e - 1)
    ELSE IF a >= 2 * b THEN Normalize(a, 2 * b, e + 1)
    ELSE <<a, b, e>>

(* The first k binary digits of r/b, for r < 2b, appended to the digits    *)
(* acc, and the remainder left after them.                                 *)
RECURSIVE Quotient(_, _, _, _)
Quotient(r, b, k, acc) ==
    IF k = 0 THEN <<acc, r>>
    ELSE IF r >= b THEN Quotient(2 * (r - b), b, k - 1, 2 * acc + 1)
    ELSE Quotient(2 * r, b, k - 1, 2 * acc)

(* m * 2^k *)
Scaled(m, k) == IF k >= 0 THEN <<m * Pow2(k), 1>> ELSE Q(m, Pow2(0 - k))

(* Round to nearest, ties to even: the significand m, given the digit      *)
(* after it and whether anything non-zero follows that digit.              *)
Nearest(m, digit, sticky) ==
    IF digit = 1 /\ (sticky \/ m % 2 = 1) THEN m + 1 ELSE m

(* x = m / 2^k with m < 2^p: a value of the type, which rounding leaves    *)
(* as it is.                                                               *)
Representable(x, p) ==
    /\ Pow2(30) % x[2] = 0
    /\ (p < 30 => x[1] < Pow2(p))

(* x rounded to p significand digits.                                      *)
Round(x, p) ==
    IF x[1] = 0 \/ Representable(x, p) THEN x
    ELSE LET n == Normalize(x[1], x[2], 0)
             q == Quotient(n[1], n[2], p + 1, 0)
         IN  Scaled(Nearest(q[1] \div 2, q[1] % 2, q[2] # 0),
                    n[3] - (p - 1))

(* x rounded to p1 digits and the result rounded to p2 < p1 digits: a      *)
(* double expression stored into a float.  hi holds the first p2 digits,   *)
(* lo the p1 - p2 digits after them.                                       *)
RoundTwice(x, p1, p2) ==
    IF x[1] = 0 \/ Representable(x, p2) THEN x
    ELSE LET n    == Normalize(x[1], x[2], 0)
             hi   == Quotient(n[1], n[2], p2, 0)
             lo   == Quotient(hi[2], n[2], p1 - p2 + 1, 0)
             lo1  == Nearest(lo[1] \div 2, lo[1] % 2, lo[2] # 0)
             hi1  == hi[1] + (lo1 \div Pow2(p1 - p2))
             lo2  == lo1 % Pow2(p1 - p2)
             half == Pow2(p1 - p2 - 1)
         IN  Scaled(Nearest(hi1, lo2 \div half, lo2 % half # 0),
                    n[3] - (p2 - 1))

(* float + float, float * float, float / float                             *)
FAdd(x, y) == Round(RatAdd(x, y), FLT_MANT_DIG)
FMul(x, y) == Round(RatMul(x, y), FLT_MANT_DIG)
FDiv(x, y) == Round(RatDiv(x, y), FLT_MANT_DIG)

(* double + double; (float)(double / double)                               *)
DAdd(x, y) == Round(RatAdd(x, y), DBL_MANT_DIG)
DDivToFloat(x, y) == RoundTwice(RatDiv(x, y), DBL_MANT_DIG, FLT_MANT_DIG)

DefaultTv == [strength |-> Q(1, 1), confidence |-> Q(0, 1)]
ZeroAv == [sti |-> 0, lti |-> 0, vlti |-> 0]

(***************************************************************************)
(* Program constants.                                                      *)
(***************************************************************************)
ATOM_TABLE_SIZE == 1024
LINK_TABLE_SIZE == 512
ATOMSPACE_FILE_MAGIC == 1096045389
ATOMSPACE_FILE_VERSION == 1
LEARNING_FILE_MAGIC == 1280460877
LEARNING_FILE_VERSION == 1
SWARM_FORMING == 0
SWARM_ACTIVE == 1
SWARM_COORDINATING == 2
ATOM_CONCEPT == 1
ATOM_MODULE == 5
ATOM_SWARM == 6
LINK_INHERITANCE == 0
LINK_SWARM_MEMBER == 3
ATOMSPACE_PROTO_VERSION == 1
ATOMSPACE_MAGIC == 1096044365
MSG_SYNC_ATOM == 2
SYNC_BUFFER_SIZE == 65536
AtomHeaderSize == 44    \* sizeof(struct atom_header), packed, 8-byte time_t
CONFLICT_LATEST_WINS == 0
CONFLICT_HIGHEST_CONFIDENCE == 1
CONFLICT_MERGE_TV == 2
CONFLICT_MANUAL == 3

(***************************************************************************)
(* Bounds of the model.                                                    *)
(***************************************************************************)
MaxHandle == 3      \* a store hands out at most this many handles
MaxTime == 1        \* the clock runs from 0 to MaxTime
MaxAccess == 1      \* lookups stop when a store's access_counts add up to this
MaxExtra == 1       \* handles given out by a loaded store after the load
MaxLocal == 3       \* atoms of the local store of the replication manager
MaxNodes == 2       \* remote nodes registered with the manager
MaxSent == 9        \* sync_full stops when atoms_sent would pass this
MaxResolved == 1    \* MergeTV stops at this many conflicts resolved
MaxGrid == 2        \* revision inputs are multiples of 1/2^MaxGrid in [0, 1]
MaxMembers == 2     \* members passed to create_swarm
MaxSingle == 1      \* a session stops sending when atoms_sent reaches this
MaxClock == 3       \* seconds a persistence session lasts
MaxHistory == 2     \* entries of a saved learning history
MaxLost == 2        \* sends of a pass that the network fails
MaxKept == 2        \* entries a learning context keeps (max_history_size)
MaxRecorded == 3    \* sync events recorded by a learning context
MaxSyncs == 2       \* syncs initiated on a swarm formation
MaxRetries == 2     \* max_retries and circuit_breaker_threshold of a configuration
MaxErrors == 3      \* failures recorded by an error recovery context
MaxRequests == 2    \* max_requests of a rate limiter
MaxWindow == 3      \* time_window of a rate limiter, in seconds
MaxCount == 2       \* the statistics of a rate limiter are counted up to this

(***************************************************************************)
(* Inputs.  "az" and "bY" have the same djb2 hash, so they share a bucket. *)
(***************************************************************************)
NameSet == {Ptr(<<>>), Ptr(<<97, 122>>), Ptr(<<98, 89>>)}
TypeSet == {ATOM_CONCEPT, ATOM_MODULE}
(* The nodes the client of Spec asks for: two names of one bucket, one     *)
(* name under two types, the empty name, and no name at all.               *)
NodeSet ==
    {<<ATOM_MODULE, Ptr(<<97, 122>>)>>, <<ATOM_MODULE, Ptr(<<98, 89>>)>>,
     <<ATOM_CONCEPT, Ptr(<<97, 122>>)>>, <<ATOM_CONCEPT, Ptr(<<>>)>>,
     <<ATOM_CONCEPT, <<>>>>}
LinkTypeSet == {LINK_INHERITANCE}
TvSet == {[strength |-> Q(1, 1), confidence |-> Q(3, 4)]}
StiSet == {7}
StoreIds == {"as", "ld"}
MemSet == {"ok", "no_object", "no_payload"}

(***************************************************************************)
(* Sparse tables.                                                          *)
(***************************************************************************)
EmptyTable == [b \in {} |-> <<>>]

Chain(tbl, b) == IF b \in DOMAIN tbl THEN tbl[b] ELSE <<>>

Put(tbl, b, chain) ==
    [x \in (DOMAIN tbl) \cup {b} |-> IF x = b THEN chain ELSE tbl[x]]

Min(S) == CHOOSE x \in S : \A y \in S : x <= y

(* Concatenation of the chains of a table, buckets in increasing order:    *)
(* the order of "for (i = 0; i < size; i++) for (a = table[i]; a; ...)".   *)
RECURSIVE TraverseFrom(_, _)
TraverseFrom(tbl, todo) ==
    IF todo = {} THEN <<>>
    ELSE LET b == Min(todo)
         IN  tbl[b] \o TraverseFrom(tbl, todo \ {b})

Traverse(tbl) == TraverseFrom(tbl, DOMAIN tbl)

SeqToSet(s) == {s[i] : i \in 1..Len(s)}

(***************************************************************************)
(* atom_hash, reduced modulo the table size.  The code computes the djb2   *)
(* hash in 32 bits and only ever uses it modulo atom_table_size = 1024,    *)
(* which divides 2^32, so reducing at every step gives the same bucket.    *)
(***************************************************************************)
RECURSIVE atom_hash_from(_, _)
atom_hash_from(hash, name) ==
    IF name = <<>> THEN hash
    ELSE atom_hash_from((hash * 33 + Head(name)) % ATOM_TABLE_SIZE, Tail(name))

atom_hash(name) == atom_hash_from(5381 % ATOM_TABLE_SIZE, Deref(name))

(***************************************************************************)
(* atomspace_create                                                        *)
(***************************************************************************)
atomspace_create(id) ==
    [id              |-> id,
     atom_table      |-> EmptyTable,
     link_table      |-> EmptyTable,
     attention_queue |-> EmptyTable,
     atom_count      |-> 0,
     link_count      |-> 0,
     next_handle     |-> 1]

Atoms(s) == Traverse(s.atom_table)
Links(s) == Traverse(s.link_table)

(***************************************************************************)
(* atomspace_find_node: the first atom of the name's bucket whose type and *)
(* name both match; a hit refreshes last_accessed and access_count.        *)
(***************************************************************************)
FirstMatch(chain, type, name) ==
    LET hits == {i \in 1..Len(chain) :
                    chain[i].type = type /\ chain[i].name = name}
    IN  IF hits = {} THEN 0 ELSE Min(hits)

atomspace_find_node_head_only(s, type, name, t) ==
    IF name = NULL THEN [as |-> s, ret |-> NULL]
    ELSE
    LET bucket == atom_hash(name) % ATOM_TABLE_SIZE
        chain  == Chain(s.atom_table, bucket)
        i      == FirstMatch(IF chain = <<>> THEN <<>> ELSE <<chain[1]>>,
                             type, name)
    IN  IF i = 0 THEN [as |-> s, ret |-> NULL]
        ELSE LET a == [chain[i] EXCEPT !.last_accessed = t,
                                       !.access_count = @ + 1]
             IN  [as  |-> [s EXCEPT !.atom_table[bucket][i] = a],
                  ret |-> Ptr(a)]

atomspace_find_node(s, type, name, t) ==
    IF name = NULL THEN [as |-> s, ret |-> NULL]
    ELSE
    LET bucket == atom_hash(name) % ATOM_TABLE_SIZE
        chain  == Chain(s.atom_table, bucket)
        i      == FirstMatch(chain, type, name)
    IN  IF i = 0 THEN [as |-> s, ret |-> NULL]
        ELSE LET a == [chain[i] EXCEPT !.last_accessed = t,
                                       !.access_count = @ + 1]
             IN  [as  |-> [s EXCEPT !.atom_table[bucket][i] = a],
                  ret |-> Ptr(a)]

(***************************************************************************)
(* atomspace_get_atom: the first atom, in bucket order and then in chain   *)
(* order, whose handle matches; a hit refreshes last_accessed and          *)
(* access_count.                                                           *)
(***************************************************************************)
FirstWithHandle(tbl, handle) ==
    LET slots == UNION {{<<b, i>> : i \in 1..Len(tbl[b])} : b \in DOMAIN tbl}
        hits  == {p \in slots : tbl[p[1]][p[2]].handle = handle}
    IN  IF hits = {} THEN NULL
        ELSE Ptr(CHOOSE p \in hits :
                    \A q \in hits :
                        p[1] < q[1] \/ (p[1] = q[1] /\ p[2] <= q[2]))

atomspace_get_atom_untouched(s, handle, t) ==
    LET hit == FirstWithHandle(s.atom_table, handle)
    IN  IF hit = NULL THEN [as |-> s, ret |-> NULL]
        ELSE [as  |-> s,
              ret |-> Ptr(s.atom_table[Deref(hit)[1]][Deref(hit)[2]])]

atomspace_get_atom(s, handle, t) ==
    LET hit == FirstWithHandle(s.atom_table, handle)
    IN  IF hit = NULL THEN [as |-> s, ret |-> NULL]
        ELSE LET b == Deref(hit)[1]
                 i == Deref(hit)[2]
                 a == [s.atom_table[b][i] EXCEPT !.last_accessed = t,
                                                 !.access_count = @ + 1]
             IN  [as  |-> [s EXCEPT !.atom_table[b][i] = a],
                  ret |-> Ptr(a)]

(***************************************************************************)
(* atomspace_add_node.  mem says which allocation fails, if any: the atom  *)
(* ("no_object") or the copy of the name ("no_payload").  The handle is    *)
(* taken from the counter before the name is copied.                       *)
(***************************************************************************)
NewAtom(s, type, name, t) ==
    [addr          |-> <<s.id, s.next_handle>>,
     handle        |-> s.next_handle,
     type          |-> type,
     name          |-> name,
     tv            |-> DefaultTv,
     av            |-> ZeroAv,
     created       |-> t,
     last_accessed |-> t,
     access_count  |-> 0]

atomspace_add_node_no_lookup(s, type, name, t, mem) ==
    IF name = NULL THEN [as |-> s, ret |-> NULL]
    ELSE IF mem = "no_object" THEN [as |-> s, ret |-> NULL]
    ELSE IF mem = "no_payload"
         THEN [as |-> [s EXCEPT !.next_handle = @ + 1], ret |-> NULL]
    ELSE LET atom   == NewAtom(s, type, name, t)
             bucket == atom_hash(name) % ATOM_TABLE_SIZE
         IN  [as  |-> [s EXCEPT
                  !.next_handle = @ + 1,
                  !.atom_table  = Put(@, bucket, <<atom>> \o Chain(@, bucket)),
                  !.atom_count  = @ + 1],
              ret |-> Ptr(atom)]

atomspace_add_node_counts_early(s, type, name, t, mem) ==
    IF name = NULL THEN [as |-> s, ret |-> NULL]
    ELSE
    LET found == atomspace_find_node(s, type, name, t)
    IN  IF found.ret # NULL THEN found
        ELSE IF mem = "no_object" THEN [as |-> s, ret |-> NULL]
        ELSE IF mem = "no_payload"
             THEN [as |-> [s EXCEPT !.next_handle = @ + 1,
                                    !.atom_count  = @ + 1], ret |-> NULL]
        ELSE LET atom   == NewAtom(s, type, name, t)
                 bucket == atom_hash(name) % ATOM_TABLE_SIZE
             IN  [as  |-> [s EXCEPT
                      !.next_handle = @ + 1,
                      !.atom_table  = Put(@, bucket,
                                          <<atom>> \o Chain(@, bucket)),
                      !.atom_count  = @ + 1],
                  ret |-> Ptr(atom)]

atomspace_add_node(s, type, name, t, mem) ==
    IF name = NULL THEN [as |-> s, ret |-> NULL]
    ELSE
    LET found == atomspace_find_node(s, type, name, t)
    IN  IF found.ret # NULL THEN found
        ELSE IF mem = "no_object" THEN [as |-> s, ret |-> NULL]
        ELSE IF mem = "no_payload"
             THEN [as |-> [s EXCEPT !.next_handle = @ + 1], ret |-> NULL]
        ELSE LET atom   == NewAtom(s, type, name, t)
                 bucket == atom_hash(name) % ATOM_TABLE_SIZE
             IN  [as  |-> [s EXCEPT
                      !.next_handle = @ + 1,
                      !.atom_table  = Put(@, bucket,
                                          <<atom>> \o Chain(@, bucket)),
                      !.atom_count  = @ + 1],
                  ret |-> Ptr(atom)]

(***************************************************************************)
(* atomspace_add_link.  outgoing points to an array of atom addresses.     *)
(***************************************************************************)
atomspace_add_link_own_counter(s, type, outgoing, t, mem) ==
    IF outgoing = NULL THEN [as |-> s, ret |-> NULL]
    ELSE IF Len(Deref(outgoing)) = 0 THEN [as |-> s, ret |-> NULL]
    ELSE IF mem = "no_object" THEN [as |-> s, ret |-> NULL]
    ELSE IF mem = "no_payload"
         THEN [as |-> [s EXCEPT !.next_handle = @ + 1], ret |-> NULL]
    ELSE LET link == [addr     |-> <<s.id, s.next_handle>>,
                      handle   |-> s.link_count + 1,
                      type     |-> type,
                      outgoing |-> Deref(outgoing),
                      tv       |-> DefaultTv,
                      av       |-> ZeroAv,
                      created  |-> t]
             bucket == link.handle % LINK_TABLE_SIZE
         IN  [as  |-> [s EXCEPT
                  !.next_handle = @ + 1,
                  !.link_table  = Put(@, bucket, <<link>> \o Chain(@, bucket)),
                  !.link_count  = @ + 1],
              ret |-> Ptr(link)]

atomspace_add_link(s, type, outgoing, t, mem) ==
    IF outgoing = NULL THEN [as |-> s, ret |-> NULL]
    ELSE IF Len(Deref(outgoing)) = 0 THEN [as |-> s, ret |-> NULL]
    ELSE IF mem = "no_object" THEN [as |-> s, ret |-> NULL]
    ELSE IF mem = "no_payload"
         THEN [as |-> [s EXCEPT !.next_handle = @ + 1], ret |-> NULL]
    ELSE LET link == [addr     |-> <<s.id, s.next_handle>>,
                      handle   |-> s.next_handle,
                      type     |-> type,
                      outgoing |-> Deref(outgoing),
                      tv       |-> DefaultTv,
                      av       |-> ZeroAv,
                      created  |-> t]
             bucket == link.handle % LINK_TABLE_SIZE
         IN  [as  |-> [s EXCEPT
                  !.next_handle = @ + 1,
                  !.link_table  = Put(@, bucket, <<link>> \o Chain(@, bucket)),
                  !.link_count  = @ + 1],
              ret |-> Ptr(link)]

(***************************************************************************)
(* atomspace_create_swarm: the swarm node is added (or found), then one    *)
(* membership link per member, in order; the first link that cannot be     *)
(* made ends the call with -1.  mem_node is the outcome of the allocations *)
(* of add_node, mem_links[i] that of the allocations of the i-th add_link. *)
(***************************************************************************)
RECURSIVE swarm_links(_, _, _, _, _, _)
swarm_links(s, swarm_node, members, i, t, mem_links) ==
    IF i > Len(members) THEN [as |-> s, ret |-> 0]
    ELSE LET r == atomspace_add_link(s, LINK_SWARM_MEMBER,
                                     Ptr(<<swarm_node, members[i]>>),
                                     t, mem_links[i])
         IN  IF r.ret = NULL THEN [as |-> r.as, ret |-> -1]
             ELSE swarm_links(r.as, swarm_node, members, i + 1, t, mem_links)

atomspace_create_swarm_reports_success(s, swarm_name, members, t, mem_node, mem_links) ==
    IF swarm_name = NULL \/ members = NULL THEN [as |-> s, ret |-> -1]
    ELSE IF Len(Deref(members)) = 0 THEN [as |-> s, ret |-> -1]
    ELSE LET n == atomspace_add_node(s, ATOM_SWARM, swarm_name, t, mem_node)
         IN  IF n.ret = NULL THEN [as |-> n.as, ret |-> -1]
             ELSE [as  |-> swarm_links(n.as, Deref(n.ret).addr,
                                       Deref(members), 1, t, mem_links).as,
                   ret |-> 0]

atomspace_create_swarm(s, swarm_name, members, t, mem_node, mem_links) ==
    IF swarm_name = NULL \/ members = NULL THEN [as |-> s, ret |-> -1]
    ELSE IF Len(Deref(members)) = 0 THEN [as |-> s, ret |-> -1]
    ELSE LET n == atomspace_add_node(s, ATOM_SWARM, swarm_name, t, mem_node)
         IN  IF n.ret = NULL THEN [as |-> n.as, ret |-> -1]
             ELSE swarm_links(n.as, Deref(n.ret).addr, Deref(members), 1, t,
                              mem_links)

(***************************************************************************)
(* Writes through an atom pointer: atom_set_tv, atom_set_sti.              *)
(***************************************************************************)
AtomAt(s, addr) ==
    LET hits == {a \in SeqToSet(Atoms(s)) : a.addr = addr}
    IN  IF hits = {} THEN NULL ELSE Ptr(CHOOSE a \in hits : TRUE)

WriteAtom(s, addr, new) ==
    [s EXCEPT !.atom_table =
        [b \in DOMAIN @ |->
            [i \in 1..Len(@[b]) |->
                IF @[b][i].addr = addr THEN new ELSE @[b][i]]]]

atom_set_tv(s, addr, strength, confidence) ==
    IF addr = NULL THEN s
    ELSE WriteAtom(s, addr, [Deref(AtomAt(s, addr)) EXCEPT
                                !.tv = [strength   |-> strength,
                                        confidence |-> confidence]])

atom_set_sti(s, addr, sti) ==
    IF addr = NULL THEN s
    ELSE WriteAtom(s, addr, [Deref(AtomAt(s, addr)) EXCEPT !.av.sti = sti])

(***************************************************************************)
(* atomspace_save_binary: the header, then one record per atom in bucket   *)
(* order.  A record carries the type as one byte and the length of the     *)
(* name, and is followed by the bytes of the name when there are any.      *)
(***************************************************************************)
atom_record(atom) ==
    LET name_len == IF atom.name # NULL THEN Len(Deref(atom.name)) ELSE 0
    IN  [handle   |-> atom.handle,
         type     |-> atom.type % 256,
         name_len |-> name_len,
         tv       |-> atom.tv,
         av       |-> atom.av,
         name     |-> IF name_len > 0 THEN Deref(atom.name) ELSE <<>>]

atomspace_save_binary(s) ==
    LET atoms == Atoms(s)
    IN  [hdr  |-> Ptr([magic      |-> ATOMSPACE_FILE_MAGIC,
                       version    |-> ATOMSPACE_FILE_VERSION,
                       atom_count |-> s.atom_count,
                       link_count |-> 0]),
         recs |-> [i \in 1..Len(atoms) |-> atom_record(atoms[i])],
         rest |-> NULL]

(***************************************************************************)
(* A file is its header (NULL when the file holds fewer bytes than a       *)
(* header, so that the fread of the header fails), the records that are    *)
(* whole, and the bytes after them (rest): NULL at a record boundary, or   *)
(* the part of a record that is left when the file ends inside it, on      *)
(* which the fread of the fixed part or of the name fails.                 *)
(*                                                                         *)
(* atomspace_load_binary: a fresh store, then for each of the atom_count   *)
(* records announced by the header, as long as records can be read:        *)
(* add_node(type, name), with name NULL when name_len is 0, and, when      *)
(* add_node returned an atom, the saved handle, tv and av written over     *)
(* the ones add_node gave it.                                              *)
(***************************************************************************)
load_record(s, rec, t) ==
    LET name == IF rec.name_len > 0 THEN Ptr(rec.name) ELSE NULL
        r    == atomspace_add_node(s, rec.type, name, t, "ok")
    IN  IF r.ret = NULL THEN r.as
        ELSE WriteAtom(r.as, Deref(r.ret).addr,
                       [Deref(r.ret) EXCEPT !.handle = rec.handle,
                                     !.tv     = rec.tv,
                                     !.av     = rec.av])

RECURSIVE load_records(_, _, _, _, _)
load_records(s, recs, i, atom_count, t) ==
    IF i > atom_count \/ i > Len(recs) THEN s
    ELSE load_records(load_record(s, recs[i], t), recs, i + 1, atom_count, t)

atomspace_load_binary_unvalidated(f, id, t) ==
    IF f = NULL THEN NULL
    ELSE IF Deref(f).hdr = NULL THEN NULL
    ELSE Ptr(load_records(atomspace_create(id), Deref(f).recs, 1,
                          Deref(Deref(f).hdr).atom_count, t))

atomspace_load_binary(f, id, t) ==
    IF f = NULL THEN NULL
    ELSE IF Deref(f).hdr = NULL THEN NULL
    ELSE IF Deref(Deref(f).hdr).magic # ATOMSPACE_FILE_MAGIC
            \/ Deref(Deref(f).hdr).version # ATOMSPACE_FILE_VERSION
    THEN NULL
    ELSE Ptr(load_records(atomspace_create(id), Deref(f).recs, 1,
                          Deref(Deref(f).hdr).atom_count, t))

(***************************************************************************)
(* The client's calls on the stores.  "as" is made by atomspace_create,    *)
(* "ld" is the store atomspace_load returns.  The client builds "as",      *)
(* saves it, loads the file and goes on with the loaded store: once the    *)
(* file is written the client leaves "as" alone (Usable).                  *)
(***************************************************************************)
otherVars == <<wire, das, next_id, socks, res, libVars>>

Live == {st \in StoreIds : spaces[st] # NULL}

Store(st) == Deref(spaces[st])

AtomSet(st) == SeqToSet(Atoms(Store(st)))

Usable(st) ==
    /\ spaces[st] # NULL
    /\ st = "as" => file = NULL

Objects(s) == SeqToSet(Atoms(s)) \cup SeqToSet(Links(s))

RECURSIVE TotalAccess(_)
TotalAccess(atoms) ==
    IF atoms = <<>> THEN 0
    ELSE Head(atoms).access_count + TotalAccess(Tail(atoms))

WithinBounds(s) ==
    /\ s.next_handle <= MaxHandle + 1
    /\ TotalAccess(Atoms(s)) <= MaxAccess

AddNode(st, type, name, mem) ==
    /\ Usable(st)
    /\ LET r == atomspace_add_node(Deref(spaces[st]), type, name, now, mem)
       IN  /\ WithinBounds(r.as)
           /\ spaces' = [spaces EXCEPT ![st] = Ptr(r.as)]
    /\ UNCHANGED <<file, now, otherVars>>

AtomAddrs(st) ==
    IF spaces[st] = NULL THEN {}
    ELSE {a.addr : a \in SeqToSet(Atoms(Deref(spaces[st])))}

(* The arrays a client can pass to add_link: no array, an empty one, or    *)
(* one pointer to an atom of the given stores.                             *)
OutgoingSet(stores) ==
    LET addrs == UNION {AtomAddrs(st) : st \in stores}
    IN  {NULL, Ptr(<<>>)} \cup {Ptr(<<x>>) : x \in addrs}

AddLink(st, type, outgoing, mem) ==
    /\ Usable(st)
    /\ LET r == atomspace_add_link(Deref(spaces[st]), type, outgoing, now, mem)
       IN  /\ WithinBounds(r.as)
           /\ spaces' = [spaces EXCEPT ![st] = Ptr(r.as)]
    /\ UNCHANGED <<file, now, otherVars>>

SetTv(st, addr, tv) ==
    /\ Usable(st)
    /\ AtomAt(Deref(spaces[st]), addr) # NULL
    /\ spaces' = [spaces EXCEPT
           ![st] = Ptr(atom_set_tv(Deref(@), addr, tv.strength, tv.confidence))]
    /\ UNCHANGED <<file, now, otherVars>>

SetSti(st, addr, sti) ==
    /\ Usable(st)
    /\ AtomAt(Deref(spaces[st]), addr) # NULL
    /\ spaces' = [spaces EXCEPT ![st] = Ptr(atom_set_sti(Deref(@), addr, sti))]
    /\ UNCHANGED <<file, now, otherVars>>

(* atomspace_save(as, path) *)
Save ==
    /\ Usable("as")
    /\ file' = Ptr(atomspace_save_binary(Deref(spaces["as"])))
    /\ UNCHANGED <<spaces, now, otherVars>>

(* ld = atomspace_load(path) *)
Load ==
    /\ spaces["ld"] = NULL
    /\ spaces' = [spaces EXCEPT
           !["ld"] = atomspace_load_binary(file, "ld", now)]
    /\ UNCHANGED <<file, now, otherVars>>

Init ==
    /\ spaces = [st \in StoreIds |->
                    IF st = "as" THEN Ptr(atomspace_create("as")) ELSE NULL]
    /\ file = NULL
    /\ now = 0
    /\ wire = NULL
    /\ das = NULL
    /\ next_id = 1
    /\ socks = {}
    /\ res = NULL
    /\ InitLib

(* The atom the client keeps a pointer to for the setters: the first one   *)
(* it allocated in the store.                                              *)
FirstAtom(st) ==
    {a \in AtomAddrs(st) : \A b \in AtomAddrs(st) : a[2] <= b[2]}

(* The loaded store has been given at most MaxExtra handles since the load *)
Extended(s) ==
    s.next_handle <= s.atom_count + s.link_count + MaxExtra + 1

(***************************************************************************)
(* Spec: the store made by atomspace_create, its factory operations and    *)
(* setters, and a save of the store followed by a load of the file.        *)
(***************************************************************************)
Next ==
    \/ \E node \in NodeSet, mem \in MemSet :
          AddNode("as", node[1], node[2], mem)
    \/ \E type \in LinkTypeSet, outgoing \in OutgoingSet({"as"}),
          mem \in MemSet : AddLink("as", type, outgoing, mem)
    \/ \E addr \in FirstAtom("as"), tv \in TvSet : SetTv("as", addr, tv)
    \/ \E addr \in FirstAtom("as"), sti \in StiSet : SetSti("as", addr, sti)
    \/ Save
    \/ Load

Spec == Init /\ [][Next]_vars

(***************************************************************************)
(* SpecPersist: a store of module atoms and links is built, saved and      *)
(* loaded, and the loaded store is extended.                               *)
(***************************************************************************)
NextPersist ==
    \/ \E name \in NameSet, mem \in {"ok", "no_payload"} :
          AddNode("as", ATOM_MODULE, name, mem)
    \/ \E addr \in AtomAddrs("as") :
          AddLink("as", LINK_INHERITANCE, Ptr(<<addr>>), "ok")
    \/ Save
    \/ Load
    \/ \E type \in TypeSet, name \in NameSet :
          /\ AddNode("ld", type, name, "ok")
          /\ Extended(Deref(spaces'["ld"]))
    \/ \E addr \in AtomAddrs("ld") :
          /\ AddLink("ld", LINK_INHERITANCE, Ptr(<<addr>>), "ok")
          /\ Extended(Deref(spaces'["ld"]))

SpecPersist == Init /\ [][NextPersist]_vars

(***************************************************************************)
(* The wire envelope.  A buffer is the header fields and the bytes that    *)
(* follow the header; bufsize says how many bytes of it are valid.         *)
(***************************************************************************)
serialize_atom(atom, bufsize, t) ==
    IF atom = NULL THEN [rc |-> -1, buffer |-> NULL, out_len |-> 0]
    ELSE
    LET a         == Deref(atom)
        name_len  == IF a.name # NULL THEN Len(Deref(a.name)) ELSE 0
        total_len == AtomHeaderSize + name_len
    IN  IF total_len > bufsize
        THEN [rc |-> -1, buffer |-> NULL, out_len |-> 0]
        ELSE [rc      |-> 0,
              buffer  |-> Ptr([hdr  |-> [magic       |-> ATOMSPACE_MAGIC,
                                         version     |-> ATOMSPACE_PROTO_VERSION,
                                         msg_type    |-> MSG_SYNC_ATOM,
                                         atom_handle |-> a.handle,
                                         atom_type   |-> a.type % 256,
                                         name_len    |-> name_len,
                                         tv          |-> a.tv,
                                         av          |-> a.av,
                                         timestamp   |-> t],
                               body |-> IF name_len > 0
                                        THEN Deref(a.name) ELSE <<>>]),
              out_len |-> total_len]

(* The atom deserialize_atom builds: a zeroed struct atom with the five    *)
(* fields of the header copied in.                                         *)
WireAtom(hdr, name) ==
    [addr          |-> <<"heap", 0>>,
     handle        |-> hdr.atom_handle,
     type          |-> hdr.atom_type,
     name          |-> name,
     tv            |-> hdr.tv,
     av            |-> hdr.av,
     created       |-> 0,
     last_accessed |-> 0,
     access_count  |-> 0]

(* ret is the atom returned, live the number of blocks still allocated.    *)
deserialize_atom_no_version_check(buffer, bufsize, mem) ==
    IF buffer = NULL \/ bufsize < AtomHeaderSize
    THEN [ret |-> NULL, live |-> 0]
    ELSE
    LET hdr == Deref(buffer).hdr
    IN  IF hdr.magic # ATOMSPACE_MAGIC
        THEN [ret |-> NULL, live |-> 0]
        ELSE IF AtomHeaderSize + hdr.name_len > bufsize
        THEN [ret |-> NULL, live |-> 0]
        ELSE IF hdr.name_len > 0 /\ mem = "no_payload"
        THEN [ret |-> NULL, live |-> 0]
        ELSE IF mem = "no_object"
        THEN [ret |-> NULL, live |-> 0]
        ELSE LET name_copy ==
                     IF hdr.name_len > 0
                     THEN Ptr(SubSeq(Deref(buffer).body, 1, hdr.name_len))
                     ELSE NULL
             IN  [ret  |-> Ptr(WireAtom(hdr, name_copy)),
                  live |-> IF hdr.name_len > 0 THEN 2 ELSE 1]

deserialize_atom(buffer, bufsize, mem) ==
    IF buffer = NULL \/ bufsize < AtomHeaderSize
    THEN [ret |-> NULL, live |-> 0]
    ELSE
    LET hdr == Deref(buffer).hdr
    IN  IF hdr.magic # ATOMSPACE_MAGIC
           \/ hdr.version # ATOMSPACE_PROTO_VERSION
        THEN [ret |-> NULL, live |-> 0]
        ELSE IF AtomHeaderSize + hdr.name_len > bufsize
        THEN [ret |-> NULL, live |-> 0]
        ELSE IF hdr.name_len > 0 /\ mem = "no_payload"
        THEN [ret |-> NULL, live |-> 0]
        ELSE IF mem = "no_object"
        THEN [ret |-> NULL, live |-> 0]
        ELSE LET name_copy ==
                     IF hdr.name_len > 0
                     THEN Ptr(SubSeq(Deref(buffer).body, 1, hdr.name_len))
                     ELSE NULL
             IN  [ret  |-> Ptr(WireAtom(hdr, name_copy)),
                  live |-> IF hdr.name_len > 0 THEN 2 ELSE 1]

(* send_atom: sent is what send() returned.                                *)
send_atom(atom, sent, t) ==
    LET ser == serialize_atom(atom, SYNC_BUFFER_SIZE, t)
    IN  IF ser.rc < 0 THEN -1
        ELSE IF sent < 0 \/ sent # ser.out_len THEN -1
        ELSE 0

(* receive_atom: received is what recv() returned, buffer what it filled.  *)
receive_atom(buffer, received, mem) ==
    IF received <= 0 THEN [ret |-> NULL, live |-> 0]
    ELSE deserialize_atom(buffer, received, mem)

(* The first n bytes of an envelope.                                       *)
Prefix(msg, n) ==
    [size |-> n,
     buffer |-> Ptr([hdr  |-> Deref(msg.buffer).hdr,
                     body |-> IF n > AtomHeaderSize
                              THEN SubSeq(Deref(msg.buffer).body, 1,
                                          n - AtomHeaderSize)
                              ELSE <<>>])]

(***************************************************************************)
(* SpecWire: an atom is sent with send_atom, the bytes may be damaged on   *)
(* the way, and receive_atom reads them.                                   *)
(***************************************************************************)
WireAtomSet ==
    {[addr |-> <<"as", h>>, handle |-> h, type |-> type, name |-> name,
      tv |-> tv, av |-> av, created |-> 0, last_accessed |-> 0,
      access_count |-> 0] :
        h \in {1, 2}, type \in TypeSet, name \in NameSet \cup {NULL},
        tv \in {DefaultTv} \cup TvSet,
        av \in {ZeroAv, [sti |-> 7, lti |-> -3, vlti |-> 1]}}

DamageSet ==
    {"magic", "version", "name_len", "huge", "short", "header_only", "empty"}

storeVars == <<spaces, file, now>>
replVars == <<das, next_id, socks, res, libVars>>

InitWire ==
    /\ spaces = [st \in StoreIds |-> NULL]
    /\ file = NULL
    /\ now = 0
    /\ das = NULL
    /\ next_id = 1
    /\ socks = {}
    /\ res = NULL
    /\ InitLib
    /\ \E a \in WireAtomSet :
          wire = [atom |-> Ptr(a), pc |-> "start", msg |-> NULL,
                  damaged |-> FALSE, mem |-> "ok", out |-> NULL, live |-> 0]

(* send_atom(sock, atom); short is the number of bytes send() left out.    *)
WSend(short) ==
    /\ wire.pc = "start"
    /\ LET ser  == serialize_atom(wire.atom, SYNC_BUFFER_SIZE, now)
           sent == ser.out_len - short
           rc   == send_atom(wire.atom, sent, now)
           all  == [size |-> ser.out_len, buffer |-> ser.buffer]
       IN  wire' = [wire EXCEPT
               !.pc = "sent",
               !.msg = Ptr(Prefix(all, sent)),
               !.damaged = (rc # 0)]
    /\ UNCHANGED <<storeVars, replVars>>

(* The network delivers other bytes than those sent.                       *)
WDamage(kind) ==
    /\ wire.pc = "sent"
    /\ ~wire.damaged
    /\ LET msg == Deref(wire.msg)
           buf == Deref(msg.buffer)
           new ==
             CASE kind = "magic" ->
                    [msg EXCEPT !.buffer =
                        Ptr([buf EXCEPT !.hdr.magic = ATOMSPACE_FILE_MAGIC])]
               [] kind = "version" ->
                    [msg EXCEPT !.buffer =
                        Ptr([buf EXCEPT !.hdr.version =
                                ATOMSPACE_PROTO_VERSION + 1])]
               [] kind = "name_len" ->
                    [msg EXCEPT !.buffer =
                        Ptr([buf EXCEPT !.hdr.name_len = Len(buf.body) + 1])]
               [] kind = "huge" ->
                    [msg EXCEPT !.buffer =
                        Ptr([buf EXCEPT !.hdr.name_len = SYNC_BUFFER_SIZE])]
               [] kind = "short" -> Prefix(msg, AtomHeaderSize - 1)
               [] kind = "header_only" -> Prefix(msg, AtomHeaderSize)
               [] kind = "empty" -> Prefix(msg, 0)
       IN  wire' = [wire EXCEPT !.msg = Ptr(new), !.damaged = TRUE]
    /\ UNCHANGED <<storeVars, replVars>>

(* atom = receive_atom(sock) *)
WReceive(mem) ==
    /\ wire.pc = "sent"
    /\ LET msg == Deref(wire.msg)
           r   == receive_atom(msg.buffer, msg.size, mem)
       IN  wire' = [wire EXCEPT !.pc = "received", !.mem = mem,
                                !.out = r.ret, !.live = r.live]
    /\ UNCHANGED <<storeVars, replVars>>

NextWire ==
    \/ \E short \in {0, 1} : WSend(short)
    \/ \E kind \in DamageSet : WDamage(kind)
    \/ \E mem \in MemSet : WReceive(mem)

SpecWire == InitWire /\ [][NextWire]_vars

(***************************************************************************)
(* pln_context_create; mem = "no_object" is the failure of its malloc.     *)
(***************************************************************************)
pln_context_create(atomspace, mem) ==
    IF atomspace = NULL THEN NULL
    ELSE IF mem = "no_object" THEN NULL
    ELSE Ptr([atomspace            |-> Deref(atomspace),
              confidence_threshold |-> Q(1, 10),
              strength_threshold   |-> Q(1, 10),
              max_inference_depth  |-> 5])

(***************************************************************************)
(* pln_apply_revision.  The strength is computed in float; the confidence  *)
(* divides by the double 1.0 + c1*c2 and is stored into a float.           *)
(***************************************************************************)
revised_confidence(c1, c2) ==
    LET c_sum == FAdd(c1, c2)
    IN  IF Less(Q(0, 1), c_sum)
        THEN DDivToFloat(c_sum, DAdd(Q(1, 1), FMul(c1, c2)))
        ELSE Q(0, 1)

pln_apply_revision_first_strength(ctx, tv1, tv2) ==
    IF ctx = NULL THEN [strength |-> Q(0, 1), confidence |-> Q(0, 1)]
    ELSE
    LET c_sum == FAdd(tv1.confidence, tv2.confidence)
    IN  IF Less(Q(0, 1), c_sum)
        THEN [strength   |-> tv1.strength,
              confidence |-> revised_confidence(tv1.confidence, tv2.confidence)]
        ELSE [strength |-> Q(1, 2), confidence |-> Q(0, 1)]

pln_apply_revision_zero_default(ctx, tv1, tv2) ==
    IF ctx = NULL THEN [strength |-> Q(0, 1), confidence |-> Q(0, 1)]
    ELSE
    LET c_sum == FAdd(tv1.confidence, tv2.confidence)
    IN  IF Less(Q(0, 1), c_sum)
        THEN [strength   |-> FDiv(FAdd(FMul(tv1.strength, tv1.confidence),
                                       FMul(tv2.strength, tv2.confidence)),
                                  c_sum),
              confidence |-> revised_confidence(tv1.confidence, tv2.confidence)]
        ELSE [strength |-> Q(0, 1), confidence |-> Q(0, 1)]

pln_apply_revision(ctx, tv1, tv2) ==
    IF ctx = NULL THEN [strength |-> Q(0, 1), confidence |-> Q(0, 1)]
    ELSE
    LET c_sum == FAdd(tv1.confidence, tv2.confidence)
    IN  IF Less(Q(0, 1), c_sum)
        THEN [strength   |-> FDiv(FAdd(FMul(tv1.strength, tv1.confidence),
                                       FMul(tv2.strength, tv2.confidence)),
                                  c_sum),
              confidence |-> revised_confidence(tv1.confidence, tv2.confidence)]
        ELSE [strength |-> Q(1, 2), confidence |-> Q(0, 1)]

(***************************************************************************)
(* The replication manager.  The node list is a sequence, head first.      *)
(***************************************************************************)
distributed_atomspace_create(local_atomspace) ==
    [local_atomspace           |-> local_atomspace,
     nodes                     |-> <<>>,
     node_count                |-> 0,
     conflict_resolution       |-> CONFLICT_MERGE_TV,
     enable_incremental_sync   |-> 1,
     enable_bidirectional_sync |-> 1,
     sync_interval             |-> 60,
     sync_state                |-> [atoms_sent            |-> 0,
                                    atoms_received        |-> 0,
                                    links_sent            |-> 0,
                                    links_received        |-> 0,
                                    conflicts_resolved    |-> 0,
                                    last_full_sync        |-> 0,
                                    last_incremental_sync |-> 0]]

(* find_node: the index in the list of the first node with this id, or 0   *)
find_node(d, node_id) ==
    LET hits == {i \in 1..Len(d.nodes) : d.nodes[i].node_id = node_id}
    IN  IF hits = {} THEN 0 ELSE Min(hits)

(* distributed_atomspace_add_node; id is the value of the static counter   *)
distributed_atomspace_add_node(d, hostname, id, mem) ==
    IF hostname = NULL THEN [das |-> d, next_id |-> id, ret |-> 0]
    ELSE IF mem = "no_object" THEN [das |-> d, next_id |-> id, ret |-> 0]
    ELSE LET node == [node_id      |-> id,
                      hostname     |-> hostname,
                      connected    |-> 0,
                      last_sync    |-> 0,
                      atoms_synced |-> 0]
         IN  [das     |-> [d EXCEPT !.nodes = <<node>> \o @,
                                    !.node_count = @ + 1],
              next_id |-> id + 1,
              ret     |-> id]

(***************************************************************************)
(* connect_to_node.  resolved says whether getaddrinfo succeeded, addrs is *)
(* what happened at each address it returned ("no_socket", "refused" or    *)
(* "accepted"), fd the descriptor socket() gives out.                      *)
(***************************************************************************)
connect_to_node(resolved, addrs, fd) ==
    IF ~resolved THEN -1
    ELSE IF \E i \in 1..Len(addrs) : addrs[i] = "accepted" THEN fd
    ELSE -1

distributed_atomspace_connect_marks_early(d, node_id, sock) ==
    LET i == find_node(d, node_id)
    IN  IF i = 0 THEN [das |-> d, ret |-> -1]
        ELSE IF sock < 0
        THEN [das |-> [d EXCEPT !.nodes[i].connected = 1], ret |-> -1]
        ELSE [das |-> [d EXCEPT !.nodes[i].atoms_synced = sock,
                                !.nodes[i].connected = 1],
              ret |-> 0]

(* distributed_atomspace_connect; sock is what connect_to_node returned    *)
distributed_atomspace_connect(d, node_id, sock) ==
    LET i == find_node(d, node_id)
    IN  IF i = 0 THEN [das |-> d, ret |-> -1]
        ELSE IF sock < 0 THEN [das |-> d, ret |-> -1]
        ELSE [das |-> [d EXCEPT !.nodes[i].atoms_synced = sock,
                                !.nodes[i].connected = 1],
              ret |-> 0]

(***************************************************************************)
(* distributed_atomspace_sync_full.  open is the set of descriptors that   *)
(* are sockets, drop the set of <<node id, atom address>> sends that the   *)
(* network fails.  synced is one counter for the whole call; it is added   *)
(* to atoms_sent after each node.                                          *)
(***************************************************************************)
SendResult(node, atom, open, drop, t) ==
    LET len == serialize_atom(Ptr(atom), SYNC_BUFFER_SIZE, t).out_len
    IN  send_atom(Ptr(atom),
                  IF node.atoms_synced \in open
                     /\ <<node.node_id, atom.addr>> \notin drop
                  THEN len ELSE -1,
                  t)

RECURSIVE sync_full_from(_, _, _, _, _, _, _, _)
sync_full_from(d, local, node_id, i, synced, open, drop, t) ==
    IF i > Len(d.nodes) THEN [das |-> d, ret |-> synced]
    ELSE
    LET node == d.nodes[i]
    IN  IF ~(node_id = 0 \/ node.node_id = node_id)
        THEN sync_full_from(d, local, node_id, i + 1, synced, open, drop, t)
        ELSE IF node.connected = 0
        THEN sync_full_from(d, local, node_id, i + 1, synced, open, drop, t)
        ELSE
        LET atoms  == Atoms(local)
            ok     == {k \in 1..Len(atoms) :
                          SendResult(node, atoms[k], open, drop, t) = 0}
            synced2 == synced + Cardinality(ok)
            d2     == [d EXCEPT
                          !.nodes[i].last_sync = t,
                          !.sync_state.atoms_sent = @ + synced2,
                          !.sync_state.last_full_sync = t]
        IN  IF node_id # 0 THEN [das |-> d2, ret |-> synced2]
            ELSE sync_full_from(d2, local, node_id, i + 1, synced2,
                                open, drop, t)

distributed_atomspace_sync_full(d, local, node_id, open, drop, t) ==
    sync_full_from(d, local, node_id, 1, 0, open, drop, t)

(* distributed_atomspace_sync_incremental: only the time of the call is    *)
(* recorded.                                                               *)
distributed_atomspace_sync_incremental(d, node_id, t) ==
    [das |-> [d EXCEPT !.sync_state.last_incremental_sync = t], ret |-> 0]

(* distributed_atomspace_sync_atom: atoms_synced of every connected node   *)
(* is incremented, the field in which connect keeps the socket.            *)
distributed_atomspace_sync_atom_disconnects(d, atom) ==
    IF atom = NULL THEN [das |-> d, ret |-> 0]
    ELSE LET conn == {i \in 1..Len(d.nodes) : d.nodes[i].connected # 0}
         IN  [das |-> [d EXCEPT
                          !.nodes = [i \in 1..Len(@) |->
                                        IF i \in conn
                                        THEN [@[i] EXCEPT
                                                 !.atoms_synced = @ + 1,
                                                 !.connected = 0]
                                        ELSE @[i]],
                          !.sync_state.atoms_sent = @ + 1],
              ret |-> Cardinality(conn)]

distributed_atomspace_sync_atom(d, atom) ==
    IF atom = NULL THEN [das |-> d, ret |-> 0]
    ELSE LET conn == {i \in 1..Len(d.nodes) : d.nodes[i].connected # 0}
         IN  [das |-> [d EXCEPT
                          !.nodes = [i \in 1..Len(@) |->
                                        IF i \in conn
                                        THEN [@[i] EXCEPT
                                                 !.atoms_synced = @ + 1]
                                        ELSE @[i]],
                          !.sync_state.atoms_sent = @ + 1],
              ret |-> Cardinality(conn)]

distributed_atomspace_get_sync_state(d) == d.sync_state

distributed_atomspace_set_conflict_strategy(d, strategy) ==
    [d EXCEPT !.conflict_resolution = strategy]

(***************************************************************************)
(* distributed_atomspace_resolve_conflict.  ret says which of the two      *)
(* pointers is returned; local and remote are the atoms after the call.    *)
(* mem = "no_object" is the failure of pln_context_create.                 *)
(***************************************************************************)
distributed_atomspace_resolve_conflict_flipped(d, local_atom, remote_atom, mem) ==
    IF local_atom = NULL \/ remote_atom = NULL
    THEN [das |-> d, local |-> local_atom, remote |-> remote_atom,
          ret |-> "local"]
    ELSE
    LET l == Deref(local_atom)
        r == Deref(remote_atom)
    IN  CASE d.conflict_resolution = CONFLICT_LATEST_WINS ->
               [das |-> d, local |-> local_atom, remote |-> remote_atom,
                ret |-> IF r.last_accessed > l.last_accessed
                        THEN "local" ELSE "remote"]
          [] d.conflict_resolution = CONFLICT_HIGHEST_CONFIDENCE ->
               [das |-> d, local |-> local_atom, remote |-> remote_atom,
                ret |-> IF Less(l.tv.confidence, r.tv.confidence)
                        THEN "local" ELSE "remote"]
          [] OTHER ->
               [das |-> d, local |-> local_atom, remote |-> remote_atom,
                ret |-> "local"]

distributed_atomspace_resolve_conflict_manual_counts(d, local_atom, remote_atom, mem) ==
    IF local_atom = NULL \/ remote_atom = NULL
    THEN [das |-> d, local |-> local_atom, remote |-> remote_atom,
          ret |-> "local"]
    ELSE
    LET l == Deref(local_atom)
        r == Deref(remote_atom)
    IN  CASE d.conflict_resolution = CONFLICT_LATEST_WINS ->
               [das |-> d, local |-> local_atom, remote |-> remote_atom,
                ret |-> IF l.last_accessed > r.last_accessed
                        THEN "local" ELSE "remote"]
          [] d.conflict_resolution = CONFLICT_HIGHEST_CONFIDENCE ->
               [das |-> d, local |-> local_atom, remote |-> remote_atom,
                ret |-> IF Less(r.tv.confidence, l.tv.confidence)
                        THEN "local" ELSE "remote"]
          [] d.conflict_resolution = CONFLICT_MERGE_TV ->
               LET pln_ctx == pln_context_create(Ptr(d.local_atomspace), mem)
                   merged  == pln_apply_revision(pln_ctx, l.tv, r.tv)
               IN  [das    |-> [d EXCEPT
                                   !.sync_state.conflicts_resolved = @ + 1],
                    local  |-> IF pln_ctx # NULL
                               THEN Ptr([l EXCEPT !.tv = merged])
                               ELSE local_atom,
                    remote |-> remote_atom,
                    ret    |-> "local"]
          [] OTHER ->
               [das    |-> [d EXCEPT
                               !.sync_state.conflicts_resolved = @ + 1],
                local  |-> local_atom,
                remote |-> remote_atom,
                ret    |-> "local"]

distributed_atomspace_resolve_conflict(d, local_atom, remote_atom, mem) ==
    IF local_atom = NULL \/ remote_atom = NULL
    THEN [das |-> d, local |-> local_atom, remote |-> remote_atom,
          ret |-> "local"]
    ELSE
    LET l == Deref(local_atom)
        r == Deref(remote_atom)
    IN  CASE d.conflict_resolution = CONFLICT_LATEST_WINS ->
               [das |-> d, local |-> local_atom, remote |-> remote_atom,
                ret |-> IF l.last_accessed > r.last_accessed
                        THEN "local" ELSE "remote"]
          [] d.conflict_resolution = CONFLICT_HIGHEST_CONFIDENCE ->
               [das |-> d, local |-> local_atom, remote |-> remote_atom,
                ret |-> IF Less(r.tv.confidence, l.tv.confidence)
                        THEN "local" ELSE "remote"]
          [] d.conflict_resolution = CONFLICT_MERGE_TV ->
               LET pln_ctx == pln_context_create(Ptr(d.local_atomspace), mem)
                   merged  == pln_apply_revision(pln_ctx, l.tv, r.tv)
               IN  [das    |-> [d EXCEPT
                                   !.sync_state.conflicts_resolved = @ + 1],
                    local  |-> IF pln_ctx # NULL
                               THEN Ptr([l EXCEPT !.tv = merged])
                               ELSE local_atom,
                    remote |-> remote_atom,
                    ret    |-> "local"]
          [] OTHER ->
               [das |-> d, local |-> local_atom, remote |-> remote_atom,
                ret |-> "local"]

(***************************************************************************)
(* The clock.                                                              *)
(***************************************************************************)
Tick ==
    /\ now < MaxTime
    /\ now' = now + 1
    /\ UNCHANGED <<spaces, file, otherVars>>

(***************************************************************************)
(* SpecSync: a manager over a local store of up to MaxLocal atoms;         *)
(* nodes are registered and connected, and sync_full is run.               *)
(***************************************************************************)
LocalNames == <<Ptr(<<>>), Ptr(<<97, 122>>), Ptr(<<98, 89>>),
                Ptr(<<97>>), Ptr(<<98>>)>>

ConnectedNodes ==
    {i \in 1..Len(Deref(das).nodes) : Deref(das).nodes[i].connected # 0}

AtomsSent(d) == distributed_atomspace_get_sync_state(d).atoms_sent

RECURSIVE StoreWith(_)
StoreWith(n) ==
    IF n = 0 THEN atomspace_create("as")
    ELSE atomspace_add_node(StoreWith(n - 1), ATOM_MODULE, LocalNames[n],
                            0, "ok").as

InitSync ==
    /\ \E n \in 0..MaxLocal :
          spaces = [st \in StoreIds |->
                       IF st = "as" THEN Ptr(StoreWith(n)) ELSE NULL]
    /\ file = NULL
    /\ now = 0
    /\ wire = NULL
    /\ das = Ptr(distributed_atomspace_create("as"))
    /\ next_id = 1
    /\ socks = {}
    /\ res = NULL
    /\ InitLib

(* id = distributed_atomspace_add_node(das, hostname, port) *)
RegisterNode(hostname, mem) ==
    /\ next_id <= MaxNodes
    /\ LET r == distributed_atomspace_add_node(Deref(das), hostname,
                                               next_id, mem)
       IN  /\ das' = Ptr(r.das)
           /\ next_id' = r.next_id
    /\ UNCHANGED <<storeVars, wire, socks, res, libVars>>

(* distributed_atomspace_connect(das, node_id); when some address accepts  *)
(* the connection the socket is a descriptor not yet in use.               *)
Connect(node_id, reachable) ==
    /\ Cardinality(socks) < MaxNodes
    /\ LET found == find_node(Deref(das), node_id) # 0
           sock  == IF found
                    THEN connect_to_node(TRUE,
                                         IF reachable THEN <<"accepted">>
                                         ELSE <<"refused">>,
                                         Cardinality(socks) + 3)
                    ELSE -1
           r     == distributed_atomspace_connect(Deref(das), node_id, sock)
       IN  /\ das' = Ptr(r.das)
           /\ socks' = IF sock >= 0 THEN socks \cup {sock} ELSE socks
    /\ UNCHANGED <<storeVars, wire, next_id, res, libVars>>

SendPairs ==
    {<<Deref(das).nodes[i].node_id, a.addr>> :
        i \in 1..Len(Deref(das).nodes), a \in AtomSet("as")}

DropSet == {{}, SendPairs} \cup {{p} : p \in SendPairs}

(* distributed_atomspace_sync_full(das, node_id) *)
SyncFull(node_id, drop) ==
    /\ LET r == distributed_atomspace_sync_full(Deref(das), Store("as"),
                                                node_id, socks, drop, now)
       IN  /\ r.das.sync_state.atoms_sent <= MaxSent
           /\ das' = Ptr(r.das)
    /\ UNCHANGED <<storeVars, wire, next_id, socks, res, libVars>>

NextSync ==
    \/ Tick
    \/ \E hostname \in {NULL, Ptr(<<104>>)}, mem \in {"ok", "no_object"} :
          RegisterNode(hostname, mem)
    \/ \E node_id \in 0..MaxNodes, reachable \in BOOLEAN :
          Connect(node_id, reachable)
    \/ \E node_id \in 0..MaxNodes, drop \in DropSet : SyncFull(node_id, drop)

SpecSync == InitSync /\ [][NextSync]_vars

(***************************************************************************)
(* SpecConflict: the local store gets atoms at different times and truth   *)
(* values, the strategy is set, and resolve_conflict is called with a      *)
(* local atom and an atom received from a remote node.                     *)
(***************************************************************************)
RemoteAtomSet ==
    {[addr |-> <<"remote", 1>>, handle |-> 1, type |-> ATOM_MODULE,
      name |-> Ptr(<<97, 122>>),
      tv |-> [strength |-> Q(1, 2), confidence |-> c], av |-> ZeroAv,
      created |-> 0, last_accessed |-> t, access_count |-> 0] :
        c \in {Q(0, 1), Q(3, 4)}, t \in 0..MaxTime}

StrategySet ==
    {CONFLICT_LATEST_WINS, CONFLICT_HIGHEST_CONFIDENCE,
     CONFLICT_MERGE_TV, CONFLICT_MANUAL}

InitConflict ==
    /\ spaces = [st \in StoreIds |->
                    IF st = "as" THEN Ptr(atomspace_create("as")) ELSE NULL]
    /\ file = NULL
    /\ now = 0
    /\ wire = NULL
    /\ das = Ptr(distributed_atomspace_create("as"))
    /\ next_id = 1
    /\ socks = {}
    /\ res = NULL
    /\ InitLib

SetStrategy(strategy) ==
    /\ das' = Ptr(distributed_atomspace_set_conflict_strategy(Deref(das),
                                                              strategy))
    /\ UNCHANGED <<storeVars, wire, next_id, socks, res, libVars>>

(* resolved = distributed_atomspace_resolve_conflict(das, local, remote)   *)
ResolveConflict(laddr, remote, mem) ==
    /\ AtomAt(Store("as"), laddr) # NULL
    /\ Deref(das).conflict_resolution = CONFLICT_MERGE_TV
           => Deref(das).sync_state.conflicts_resolved < MaxResolved
    \* an allocation is made, and can fail, under MergeTV only
    /\ mem = "no_object"
           => Deref(das).conflict_resolution = CONFLICT_MERGE_TV
    /\ LET local == AtomAt(Store("as"), laddr)
           r     == distributed_atomspace_resolve_conflict(
                        Deref(das), local, Ptr(remote), mem)
       IN  /\ das' = Ptr(r.das)
           /\ spaces' = [spaces EXCEPT
                  !["as"] = Ptr(WriteAtom(Deref(@), laddr, Deref(r.local)))]
           /\ res' = Ptr([strategy     |-> Deref(das).conflict_resolution,
                          local        |-> Deref(local),
                          remote       |-> remote,
                          local_after  |-> Deref(r.local),
                          remote_after |-> Deref(r.remote),
                          resolved     |-> r.das.sync_state.conflicts_resolved
                                - Deref(das).sync_state.conflicts_resolved,
                          ret          |-> r.ret])
    /\ UNCHANGED <<file, now, wire, next_id, socks, libVars>>

NextConflict ==
    \/ Tick
    \/ AddNode("as", ATOM_MODULE, Ptr(<<97, 122>>), "ok")
    \/ \E addr \in FirstAtom("as"), tv \in TvSet : SetTv("as", addr, tv)
    \/ \E strategy \in StrategySet : SetStrategy(strategy)
    \/ \E laddr \in AtomAddrs("as"), remote \in RemoteAtomSet,
          mem \in {"ok", "no_object"} : ResolveConflict(laddr, remote, mem)

SpecConflict == InitConflict /\ [][NextConflict]_vars

(***************************************************************************)
(* Properties of the store and of the snapshot codec.                      *)
(***************************************************************************)
(* C1: idempotent node creation.  In every reachable store, for every type *)
(* and name, when add_node(T, x) returns an atom, a second add_node(T, x)  *)
(* returns an atom with the same handle and leaves atom_count as the first *)
(* call left it.                                                           *)
C1_IdempotentAddNode ==
    \A st \in Live : \A type \in TypeSet, name \in NameSet, mem \in MemSet :
        LET first  == atomspace_add_node(Store(st), type, name, now, mem)
            second == atomspace_add_node(first.as, type, name, now, mem)
        IN  first.ret # NULL =>
               /\ second.ret # NULL
               /\ Deref(second.ret).handle = Deref(first.ret).handle
               /\ second.as.atom_count = first.as.atom_count

(* add_node has been called on a pair that was already in the store, in a  *)
(* store where the pair is not at the head of its bucket.                  *)
C1_Witness ==
    \E a \in AtomSet("as") :
        /\ a.access_count >= 1
        /\ Store("as").atom_table[atom_hash(a.name) % ATOM_TABLE_SIZE][1] # a

(* C2: no two atoms of a store have the same (type, name) pair, in the     *)
(* store built by add_node calls and in the store built by a load.         *)
C2_NoDuplicatePair ==
    \A st \in Live : \A a, b \in AtomSet(st) :
        (a.type = b.type /\ a.name = b.name) => a.addr = b.addr

(* A loaded store with two atoms in one bucket, loaded from a store in     *)
(* which add_node was called on an existing pair.                          *)
C2_Witness ==
    /\ spaces["ld"] # NULL
    /\ \E b \in DOMAIN Store("ld").atom_table :
          Len(Store("ld").atom_table[b]) >= 2
    /\ \E a \in AtomSet("as") : a.access_count >= 1

(* C3: handle monotonicity.  Whenever add_node or add_link creates an      *)
(* object in a store, the new object's handle is strictly greater than the *)
(* handle of every object the store already held.                          *)
C3_HandleMonotone ==
    [][\A st \in StoreIds :
          (spaces[st] # NULL /\ spaces'[st] # NULL) =>
             \A n \in Objects(Deref(spaces'[st])) :
                (\A o \in Objects(Deref(spaces[st])) : o.addr # n.addr) =>
                   \A o \in Objects(Deref(spaces[st])) : n.handle > o.handle]_vars

(* An atom created after a link that was created after an atom.            *)
C3_Witness ==
    \E a, b \in AtomSet("as") : \E l \in SeqToSet(Links(Store("as"))) :
        a.addr[2] < l.addr[2] /\ l.addr[2] < b.addr[2]

(* C4: in every reachable state of a store, also of a loaded store that    *)
(* was extended by add_node and add_link, no two objects have the same     *)
(* handle.                                                                 *)
C4_HandlesUnique ==
    \A st \in Live : \A a, b \in Objects(Store(st)) :
        a.handle = b.handle => a.addr = b.addr

(* C5: persistence round trip.  The store loaded from the file saved from  *)
(* store S has the atom_count of S and, for every atom of S, an atom with  *)
(* the same handle, type, name, truth value and attention value.           *)
C5_RoundTrip ==
    (file # NULL /\ spaces["ld"] # NULL) =>
        /\ Store("ld").atom_count = Store("as").atom_count
        /\ \A a \in AtomSet("as") : \E b \in AtomSet("ld") :
              /\ b.handle = a.handle
              /\ b.type = a.type
              /\ b.name = a.name
              /\ b.tv = a.tv
              /\ b.av = a.av

(***************************************************************************)
(* Properties of the wire envelope.                                        *)
(***************************************************************************)
(* C6: wire envelope round trip.  When the bytes send_atom sent arrive as  *)
(* sent and no allocation fails, receive_atom returns an atom whose        *)
(* handle, type, name, truth value and attention value are those of the    *)
(* atom sent.                                                              *)
C6_WireRoundTrip ==
    (wire.pc = "received" /\ ~wire.damaged /\ wire.mem = "ok") =>
        /\ wire.out # NULL
        /\ Deref(wire.out).handle = Deref(wire.atom).handle
        /\ Deref(wire.out).type = Deref(wire.atom).type
        /\ Deref(wire.out).name = Deref(wire.atom).name
        /\ Deref(wire.out).tv = Deref(wire.atom).tv
        /\ Deref(wire.out).av = Deref(wire.atom).av

Rejected(msg) ==
    \/ msg.size < AtomHeaderSize
    \/ Deref(msg.buffer).hdr.magic # ATOMSPACE_MAGIC
    \/ Deref(msg.buffer).hdr.version # ATOMSPACE_PROTO_VERSION
    \/ AtomHeaderSize + Deref(msg.buffer).hdr.name_len > msg.size

(* C7: receive_atom returns no atom, and leaves nothing allocated, when    *)
(* the buffer is shorter than the header, the magic or the version is      *)
(* wrong, or the header plus the declared name_len exceeds the buffer.     *)
C7_RejectedEnvelope ==
    (wire.pc = "received" /\ Rejected(Deref(wire.msg))) =>
        (wire.out = NULL /\ wire.live = 0)

(* An envelope with the right magic and a full header, but another         *)
(* version, has been received with every allocation succeeding.            *)
C7_Witness ==
    /\ wire.pc = "received"
    /\ wire.mem = "ok"
    /\ Deref(wire.msg).size >= AtomHeaderSize
    /\ Deref(Deref(wire.msg).buffer).hdr.magic = ATOMSPACE_MAGIC
    /\ Deref(Deref(wire.msg).buffer).hdr.version # ATOMSPACE_PROTO_VERSION
    /\ wire.out = NULL

(***************************************************************************)
(* Properties of the replication manager.                                  *)
(***************************************************************************)
(* C8: a sync_full(0) in which every send succeeds, on a manager with k    *)
(* connected nodes and a local store of n atoms, raises the atoms_sent of  *)
(* the sync-state snapshot by exactly k * n.                               *)
C8_SyncFullCount ==
    [][SyncFull(0, {}) =>
          AtomsSent(Deref(das')) =
             AtomsSent(Deref(das))
                + Cardinality(ConnectedNodes) * Store("as").atom_count]_vars

(* C9: under LatestWins resolve_conflict returns the local atom when       *)
(* local.last_accessed > remote.last_accessed; under HighestConfidence it  *)
(* returns the remote atom when remote.tv.confidence >                     *)
(* local.tv.confidence; under both, the two atoms and the                  *)
(* conflicts_resolved counter are as they were before the call.            *)
C9_Deterministic ==
    res # NULL =>
        LET r == Deref(res)
        IN  /\ (r.strategy = CONFLICT_LATEST_WINS
                 /\ r.local.last_accessed > r.remote.last_accessed)
                   => r.ret = "local"
            /\ (r.strategy = CONFLICT_HIGHEST_CONFIDENCE
                 /\ Less(r.local.tv.confidence, r.remote.tv.confidence))
                   => r.ret = "remote"
            /\ r.strategy \in {CONFLICT_LATEST_WINS,
                                CONFLICT_HIGHEST_CONFIDENCE}
                   => /\ r.local_after = r.local
                      /\ r.remote_after = r.remote
                      /\ r.resolved = 0

(* resolve_conflict under LatestWins has returned a local atom that was    *)
(* accessed later than the remote one.                                     *)
C9_Witness ==
    /\ res # NULL
    /\ Deref(res).strategy = CONFLICT_LATEST_WINS
    /\ Deref(res).local.last_accessed > Deref(res).remote.last_accessed
    /\ Deref(res).ret = "local"

(* C10: under LatestWins, when local.last_accessed equals                  *)
(* remote.last_accessed, resolve_conflict returns the local atom.          *)
C10_TieFavorsLocal ==
    (/\ res # NULL
     /\ Deref(res).strategy = CONFLICT_LATEST_WINS
     /\ Deref(res).local.last_accessed = Deref(res).remote.last_accessed)
        => Deref(res).ret = "local"

(* C11: under HighestConfidence, when local.tv.confidence equals           *)
(* remote.tv.confidence, resolve_conflict returns the local atom.          *)
C11_ConfidenceTieFavorsLocal ==
    (/\ res # NULL
     /\ Deref(res).strategy = CONFLICT_HIGHEST_CONFIDENCE
     /\ Deref(res).local.tv.confidence = Deref(res).remote.tv.confidence)
        => Deref(res).ret = "local"

(* C12: under MergeTV, resolve_conflict overwrites local.tv with the       *)
(* revision of local.tv and remote.tv, returns the local atom, leaves the  *)
(* remote atom as it was and adds exactly 1 to conflicts_resolved.         *)
C12_MergeOverwritesLocal ==
    (res # NULL /\ Deref(res).strategy = CONFLICT_MERGE_TV) =>
        LET r == Deref(res)
        IN  /\ r.local_after.tv =
                  pln_apply_revision(Ptr("as"), r.local.tv, r.remote.tv)
            /\ r.ret = "local"
            /\ r.remote_after = r.remote
            /\ r.resolved = 1

(***************************************************************************)
(* SpecRevision: a context is created over the store and                   *)
(* pln_apply_revision is applied to two truth values of the grid.          *)
(***************************************************************************)
(* Confidences: the multiples of 1/2^MaxGrid in [0, 1].  Strengths: the    *)
(* multiples of 2/2^MaxGrid.                                               *)
Grid == {Q(k, Pow2(MaxGrid)) : k \in 0..Pow2(MaxGrid)}

StrengthGrid == {Q(2 * k, Pow2(MaxGrid)) : k \in 0..Pow2(MaxGrid - 1)}

TvGrid ==
    {[strength |-> s, confidence |-> c] : s \in StrengthGrid, c \in Grid}

InitRevision ==
    /\ spaces = [st \in StoreIds |->
                    IF st = "as" THEN Ptr(atomspace_create("as")) ELSE NULL]
    /\ file = NULL
    /\ now = 0
    /\ wire = NULL
    /\ das = NULL
    /\ next_id = 1
    /\ socks = {}
    /\ res = NULL
    /\ \E tv1 \in TvGrid, tv2 \in TvGrid :
          pln = [pc |-> "start", tv1 |-> tv1, tv2 |-> tv2,
                 ctx |-> NULL, out |-> NULL]
    /\ pst = [global_config |-> NULL, last_auto_save |-> 0,
              learning |-> NULL]

(* ctx = pln_context_create(atomspace) *)
CreateContext(mem) ==
    /\ pln.pc = "start"
    /\ pln' = [pln EXCEPT !.pc = "context",
                          !.ctx = pln_context_create(Ptr("as"), mem)]
    /\ UNCHANGED <<storeVars, wire, das, next_id, socks, res, pst>>

(* out = pln_apply_revision(ctx, tv1, tv2) *)
Revise ==
    /\ pln.pc = "context"
    /\ pln' = [pln EXCEPT !.pc = "done",
                          !.out = Ptr(pln_apply_revision(pln.ctx, pln.tv1,
                                                         pln.tv2))]
    /\ UNCHANGED <<storeVars, wire, das, next_id, socks, res, pst>>

NextRevision ==
    \/ \E mem \in {"ok", "no_object"} : CreateContext(mem)
    \/ Revise

SpecRevision == InitRevision /\ [][NextRevision]_vars

(***************************************************************************)
(* Properties of the revision.                                             *)
(***************************************************************************)
(* C13: the revision is commutative: the result for (tv1, tv2) is, in      *)
(* strength and in confidence, the result for (tv2, tv1).                  *)
C13_RevisionCommutes ==
    pln.pc = "done" =>
        Deref(pln.out) = pln_apply_revision(pln.ctx, pln.tv2, pln.tv1)

(* The revision has been applied, with a context, to two truth values of   *)
(* different strengths and different non-zero confidences.                 *)
C13_Witness ==
    /\ pln.pc = "done"
    /\ pln.ctx # NULL
    /\ pln.tv1.strength # pln.tv2.strength
    /\ Less(Q(0, 1), pln.tv1.confidence)
    /\ Less(pln.tv1.confidence, pln.tv2.confidence)

(* C14: applied with a context, the revision returns (0.5, 0.0) when both  *)
(* confidences are 0, whatever the strengths, and otherwise the strength   *)
(* (s1*c1 + s2*c2)/(c1 + c2) and the confidence (c1 + c2)/(1 + c1*c2).     *)
C14_RevisionFormula ==
    (pln.pc = "done" /\ pln.ctx # NULL) =>
        LET s1 == pln.tv1.strength
            c1 == pln.tv1.confidence
            s2 == pln.tv2.strength
            c2 == pln.tv2.confidence
            out == Deref(pln.out)
        IN  IF c1 = Q(0, 1) /\ c2 = Q(0, 1)
            THEN out = [strength |-> Q(1, 2), confidence |-> Q(0, 1)]
            ELSE /\ out.strength =
                       FDiv(FAdd(FMul(s1, c1), FMul(s2, c2)), FAdd(c1, c2))
                 /\ out.confidence =
                       DDivToFloat(FAdd(c1, c2), DAdd(Q(1, 1), FMul(c1, c2)))

(* The revision has been applied, with a context, to two truth values of   *)
(* confidence 0 whose strengths are not 0.5.                               *)
C14_Witness ==
    /\ pln.pc = "done"
    /\ pln.ctx # NULL
    /\ pln.tv1.confidence = Q(0, 1)
    /\ pln.tv2.confidence = Q(0, 1)
    /\ pln.tv1.strength = Q(1, 1)
    /\ pln.tv2.strength = Q(0, 1)

LessEq(x, y) == ~Less(y, x)

(* The confidences an input is raised to: the grid and the float 2^-24,    *)
(* half the distance from 1.0 to the next float.                           *)
RaisedTo == Grid \cup {Q(1, Pow2(FLT_MANT_DIG))}

(* C15: for input confidences in [0, 1] the merged confidence does not     *)
(* decrease when either input confidence is raised, and it never exceeds   *)
(* 1.                                                                      *)
C15_ConfidenceMonotone ==
    (pln.pc = "done" /\ pln.ctx # NULL) =>
        LET c1  == pln.tv1.confidence
            c2  == pln.tv2.confidence
            out == Deref(pln.out)
        IN  /\ LessEq(out.confidence, Q(1, 1))
            /\ \A c \in RaisedTo :
                   /\ LessEq(c1, c) =>
                          LessEq(out.confidence, revised_confidence(c, c2))
                   /\ LessEq(c2, c) =>
                          LessEq(out.confidence, revised_confidence(c1, c))

(* C16: under the Manual strategy the resolution returns the local atom    *)
(* and changes nothing: both atoms (truth value, attention value and all   *)
(* other fields) and the count of resolved conflicts are as before.        *)
C16_ManualChangesNothing ==
    (res # NULL /\ Deref(res).strategy = CONFLICT_MANUAL) =>
        LET r == Deref(res)
        IN  /\ r.ret = "local"
            /\ r.local_after = r.local
            /\ r.remote_after = r.remote
            /\ r.resolved = 0

(* A conflict between atoms of different truth values and access times    *)
(* has been resolved under the Manual strategy.                            *)
C16_Witness ==
    /\ res # NULL
    /\ Deref(res).strategy = CONFLICT_MANUAL
    /\ Deref(res).local.tv # Deref(res).remote.tv
    /\ Deref(res).local.last_accessed < Deref(res).remote.last_accessed

(***************************************************************************)
(* SpecLoad: a store is built and saved, the file is damaged (cut inside   *)
(* the header or inside a record, or its magic or version overwritten)     *)
(* or left as it is, and the file is loaded.                               *)
(***************************************************************************)
PartialRecords(rec) ==
    {[part |-> "fixed", name |-> <<>>]}
        \cup {[part |-> "name", name |-> SubSeq(rec.name, 1, k)] :
                  k \in 0..(rec.name_len - 1)}

(* The file cut inside its j-th record. *)
TruncatedInside(f, j) ==
    {[f EXCEPT !.recs = SubSeq(f.recs, 1, j - 1), !.rest = Ptr(p)] :
        p \in PartialRecords(f.recs[j])}

DamagedSet(f) ==
    {[hdr |-> NULL, recs |-> <<>>, rest |-> NULL],
     [f EXCEPT !.hdr = Ptr([Deref(@) EXCEPT !.magic = ATOMSPACE_MAGIC])],
     [f EXCEPT !.hdr = Ptr([Deref(@) EXCEPT
                               !.version = ATOMSPACE_FILE_VERSION + 1])]}
        \cup UNION {TruncatedInside(f, j) : j \in 1..Len(f.recs)}

Damage ==
    /\ file # NULL
    /\ res = NULL
    /\ Deref(file) = atomspace_save_binary(Deref(spaces["as"]))
    /\ \E f \in DamagedSet(Deref(file)) : file' = Ptr(f)
    /\ UNCHANGED <<spaces, now, otherVars>>

(* ld = atomspace_load_binary(fp) *)
LoadFile ==
    /\ file # NULL
    /\ res = NULL
    /\ LET ld == atomspace_load_binary(file, "ld", now)
       IN  /\ spaces' = [spaces EXCEPT !["ld"] = ld]
           /\ res' = Ptr([file |-> Deref(file), ret |-> ld])
    /\ UNCHANGED <<file, now, wire, das, next_id, socks, libVars>>

NextLoad ==
    \/ \E n \in NodeSet : AddNode("as", n[1], n[2], "ok")
    \/ \E addr \in FirstAtom("as"), tv \in TvSet : SetTv("as", addr, tv)
    \/ Save
    \/ Damage
    \/ LoadFile

SpecLoad == Init /\ [][NextLoad]_vars

(* C17: a load from a file whose header cannot be read, whose magic is not *)
(* ATOMSPACE_FILE_MAGIC or whose version is not ATOMSPACE_FILE_VERSION     *)
(* returns no store.                                                       *)
C17_BadHeaderNoStore ==
    res # NULL =>
        LET f == Deref(res).file
        IN  (\/ f.hdr = NULL
             \/ Deref(f.hdr).magic # ATOMSPACE_FILE_MAGIC
             \/ Deref(f.hdr).version # ATOMSPACE_FILE_VERSION)
                => (Deref(res).ret = NULL /\ spaces["ld"] = NULL)

(* A file that holds records and whose header has the right magic and the  *)
(* wrong version has been loaded.                                          *)
C17_Witness ==
    /\ res # NULL
    /\ Deref(res).file.hdr # NULL
    /\ Deref(Deref(res).file.hdr).magic = ATOMSPACE_FILE_MAGIC
    /\ Deref(Deref(res).file.hdr).version # ATOMSPACE_FILE_VERSION
    /\ Len(Deref(res).file.recs) >= 2

(* C18: a load from a file with a valid header that ends inside its j-th   *)
(* record returns a store that holds exactly the atoms of the j-1 records  *)
(* before it, one atom per record, and whose atom_count is the number of   *)
(* atoms it holds.                                                         *)
C18_TruncatedKeepsPrefix ==
    (/\ res # NULL
     /\ Deref(res).file.hdr # NULL
     /\ Deref(Deref(res).file.hdr).magic = ATOMSPACE_FILE_MAGIC
     /\ Deref(Deref(res).file.hdr).version = ATOMSPACE_FILE_VERSION
     /\ Deref(res).file.rest # NULL) =>
        LET recs == Deref(res).file.recs
        IN  /\ Deref(res).ret # NULL
            /\ {atom_record(a) : a \in AtomSet("ld")} = SeqToSet(recs)
            /\ Cardinality(AtomSet("ld")) = Len(recs)
            /\ Store("ld").atom_count = Cardinality(AtomSet("ld"))

(***************************************************************************)
(* SpecLookup: a store is filled while the clock advances, and atoms are   *)
(* looked up by (type, name) and by handle.  res is the last lookup: the   *)
(* store before and after it, the time of the call and what it returned.   *)
(***************************************************************************)
Lookup(op, r) ==
    /\ WithinBounds(r.as)
    /\ spaces' = [spaces EXCEPT !["as"] = Ptr(r.as)]
    /\ res' = Ptr([op     |-> op,
                   before |-> Store("as"),
                   after  |-> r.as,
                   now    |-> now,
                   ret    |-> r.ret])
    /\ UNCHANGED <<file, now, wire, das, next_id, socks, libVars>>

(* atom = atomspace_find_node(as, type, name) *)
FindNode(type, name) ==
    Lookup("find_node", atomspace_find_node(Store("as"), type, name, now))

(* atom = atomspace_get_atom(as, handle) *)
GetAtom(handle) ==
    Lookup("get_atom", atomspace_get_atom(Store("as"), handle, now))

NextLookup ==
    \/ Tick
    \/ \E node \in NodeSet :
          /\ node[2] # NULL
          /\ Deref(node[2]) # <<>>
          /\ AddNode("as", node[1], node[2], "ok")
    \/ \E node \in NodeSet : FindNode(node[1], node[2])
    \/ \E handle \in 0..(MaxHandle + 1) : GetAtom(handle)

SpecLookup == Init /\ [][NextLookup]_vars

(* C19: a find_node or get_atom that returns an atom has added 1 to that   *)
(* atom's access_count and set its last_accessed to the time of the call,  *)
(* and has changed nothing else; one that returns NULL has changed         *)
(* nothing.                                                                *)
C19_LookupTouches ==
    res # NULL =>
        LET r == Deref(res)
        IN  IF r.ret = NULL THEN r.after = r.before
            ELSE LET a   == Deref(r.ret)
                     old == Deref(AtomAt(r.before, a.addr))
                 IN  /\ a = [old EXCEPT !.access_count = @ + 1,
                                        !.last_accessed = r.now]
                     /\ r.after = WriteAtom(r.before, a.addr, a)

(* get_atom has returned an atom that was last accessed before the time    *)
(* of the call.                                                            *)
C19_Witness ==
    /\ res # NULL
    /\ Deref(res).op = "get_atom"
    /\ Deref(res).ret # NULL
    /\ Deref(AtomAt(Deref(res).before,
                    Deref(Deref(res).ret).addr)).last_accessed
           < Deref(res).now

(* C20: add_node on a (type, name) pair that is in the store returns the   *)
(* atom that holds the pair and leaves it as it was, in every field        *)
(* (handle, type, name, tv, av, last_accessed, access_count), and leaves   *)
(* atom_count and the handle counter as they were.                         *)
C20_ExistingReturnedUnchanged ==
    \A a \in AtomSet("as") : \A mem \in MemSet :
        LET r == atomspace_add_node(Store("as"), a.type, a.name, now, mem)
        IN  /\ r.ret # NULL
            /\ Deref(r.ret) = a
            /\ AtomAt(r.as, a.addr) = Ptr(a)
            /\ r.as.atom_count = Store("as").atom_count
            /\ r.as.next_handle = Store("as").next_handle

(***************************************************************************)
(* SpecLinks: a client that holds two stores, the one it built and the one *)
(* it loaded, and passes to add_link arrays of the atom pointers it holds, *)
(* of either store, or an array whose one element is NULL.                 *)
(***************************************************************************)
HeldOutgoingSet == OutgoingSet(Live) \cup {Ptr(<<NULL>>)}

NextLinks ==
    \/ \E node \in NodeSet : AddNode("as", node[1], node[2], "ok")
    \/ Save
    \/ Load
    \/ \E st \in StoreIds, outgoing \in HeldOutgoingSet :
          AddLink(st, LINK_INHERITANCE, outgoing, "ok")

SpecLinks == Init /\ [][NextLinks]_vars

(* C21: in every reachable state every element of the outgoing sequence of *)
(* every link of a store is (a pointer to) an atom of that store.          *)
C21_OutgoingInStore ==
    \A st \in Live : \A l \in SeqToSet(Links(Store(st))) :
        \A i \in 1..Len(l.outgoing) : l.outgoing[i] \in AtomAddrs(st)

(* C22: an add_node or add_link that returns NULL (an allocation failed,   *)
(* the name or the array is missing, or the array is empty) leaves the     *)
(* atom table, the link table, atom_count and link_count as they were.     *)
C22_FailureLeavesStore ==
    \A st \in Live :
        LET s == Store(st)
            Same(r) == r.ret = NULL =>
                          /\ r.as.atom_table = s.atom_table
                          /\ r.as.link_table = s.link_table
                          /\ r.as.atom_count = s.atom_count
                          /\ r.as.link_count = s.link_count
        IN  /\ \A node \in NodeSet, mem \in MemSet :
                  Same(atomspace_add_node(s, node[1], node[2], now, mem))
            /\ \A outgoing \in OutgoingSet({st}), mem \in MemSet :
                  Same(atomspace_add_link(s, LINK_INHERITANCE, outgoing,
                                          now, mem))

(* A store with an atom and a link in which a call has failed after it     *)
(* took a handle: the handle counter is ahead of the objects.              *)
C22_Witness ==
    /\ Store("as").atom_count >= 1
    /\ Store("as").link_count >= 1
    /\ Store("as").next_handle
          > Store("as").atom_count + Store("as").link_count + 1

(***************************************************************************)
(* SpecSwarm: atoms are added to a store and swarms are created over the   *)
(* atoms it holds.  res is the last create_swarm call: the number of       *)
(* members it was given, the number of links it made, and its result.      *)
(***************************************************************************)
(* The member arrays a client can pass: none, an empty one, or up to       *)
(* MaxMembers pointers to the module atoms of the store.                   *)
ModuleAddrs ==
    {a.addr : a \in {x \in AtomSet("as") : x.type = ATOM_MODULE}}

MemberSet ==
    {NULL, Ptr(<<>>)}
        \cup {Ptr(m) : m \in UNION {[1..n -> ModuleAddrs] :
                                        n \in 1..MaxMembers}}

(* The allocations of the links succeed up to the k-th, which fails; the    *)
(* loop makes no call after it (k = 0: none fails).                        *)
LinkMemSet ==
    {[i \in 1..MaxMembers |-> IF i = k THEN "no_object" ELSE "ok"] :
        k \in 0..MaxMembers}

CreateSwarm(swarm_name, members, mem_node, mem_links) ==
    /\ Usable("as")
    /\ LET r == atomspace_create_swarm(Store("as"), swarm_name, members, now,
                                       mem_node, mem_links)
       IN  /\ r.as.link_count <= MaxMembers
           /\ TotalAccess(Atoms(r.as)) <= MaxAccess
           /\ spaces' = [spaces EXCEPT !["as"] = Ptr(r.as)]
           /\ res' = Ptr([asked |-> IF members = NULL THEN 0
                                    ELSE Len(Deref(members)),
                          made  |-> r.as.link_count - Store("as").link_count,
                          ret   |-> r.ret])
    /\ UNCHANGED <<file, now, wire, das, next_id, socks, libVars>>

NextSwarm ==
    \/ \E name \in {Ptr(<<97, 122>>), Ptr(<<98, 89>>)} :
          AddNode("as", ATOM_MODULE, name, "ok")
    \/ \E swarm_name \in {NULL, Ptr(<<97, 122>>)}, members \in MemberSet,
          mem_node \in {"ok", "no_object"}, mem_links \in LinkMemSet :
          CreateSwarm(swarm_name, members, mem_node, mem_links)

SpecSwarm == Init /\ [][NextSwarm]_vars

(* The links the call made: those of the store after it that were not in   *)
(* the store before it.                                                    *)
LinksMade(r) ==
    {l \in SeqToSet(Links(r.after)) :
        \A o \in SeqToSet(Links(r.before)) : o.addr # l.addr}

SwarmNodes(s, swarm_name) ==
    {a \in SeqToSet(Atoms(s)) : a.type = ATOM_SWARM /\ a.name = swarm_name}

(* The links made are n membership links, the i-th made (in handle order)  *)
(* from the swarm node to the i-th member.                                 *)
MembershipLinks(r, n) ==
    LET made == LinksMade(r)
    IN  /\ Cardinality(made) = n
        /\ \E swarm \in SwarmNodes(r.after, r.swarm_name) :
              \A i \in 1..n : \E l \in made :
                  /\ l.type = LINK_SWARM_MEMBER
                  /\ l.outgoing = <<swarm.addr, Deref(r.members)[i]>>
                  /\ Cardinality({x \in made : x.handle < l.handle}) = i - 1

(* The first member whose link could not be made, or 0.                    *)
FailedMember(r) ==
    LET bad == {i \in 1..Len(Deref(r.members)) : r.mem_links[i] # "ok"}
    IN  IF bad = {} THEN 0 ELSE Min(bad)

(* A call of create_swarm on the store s, with what it was given.          *)
SwarmCall(s, swarm_name, members, mem_node, mem_links) ==
    LET r == atomspace_create_swarm(s, swarm_name, members, now, mem_node,
                                    mem_links)
    IN  [swarm_name |-> swarm_name, members |-> members,
         mem_node |-> mem_node, mem_links |-> mem_links,
         before |-> s, after |-> r.as, ret |-> r.ret]

SwarmCalls(s) ==
    {SwarmCall(s, swarm_name, members, mem_node, mem_links) :
        swarm_name \in {NULL, Ptr(<<97, 122>>)}, members \in MemberSet,
        mem_node \in MemSet, mem_links \in LinkMemSet}

(* C23: create_swarm returns 0 only when the swarm node is in the store    *)
(* and it has made exactly one membership link (swarm node, member i) for  *)
(* each member, in order; when the link for member k cannot be made it     *)
(* returns -1 and the swarm node and the links for the members before k    *)
(* are in the store.                                                       *)
C23_SwarmLinksNoRollback ==
    Usable("as") =>
        \A r \in SwarmCalls(Store("as")) :
            /\ r.ret = 0 =>
                  /\ r.swarm_name # NULL /\ r.members # NULL
                  /\ MembershipLinks(r, Len(Deref(r.members)))
            /\ (/\ r.swarm_name # NULL /\ r.members # NULL
                /\ SwarmNodes(r.after, r.swarm_name) # {}
                /\ FailedMember(r) # 0)
                  => /\ r.ret = -1
                     /\ MembershipLinks(r, FailedMember(r) - 1)

(* create_swarm has failed on its second member, after it made the swarm   *)
(* node and the link for the first member, and both are in the store.      *)
C23_Witness ==
    /\ res # NULL
    /\ Deref(res) = [asked |-> 2, made |-> 1, ret |-> -1]
    /\ SwarmNodes(Store("as"), Ptr(<<97, 122>>)) # {}
    /\ Store("as").link_count = 1

(***************************************************************************)
(* SpecManagers: the process destroys its manager and creates another one  *)
(* over the same store; next_id, a static of                               *)
(* distributed_atomspace_add_node, lives as long as the process.           *)
(***************************************************************************)
(* distributed_atomspace_destroy(das); das = distributed_atomspace_create(as) *)
ReplaceManager ==
    /\ das' = Ptr(distributed_atomspace_create("as"))
    /\ UNCHANGED <<storeVars, wire, next_id, socks, res, libVars>>

NextManagers ==
    \/ Tick
    \/ \E hostname \in {NULL, Ptr(<<104>>), Ptr(<<105>>)},
          mem \in {"ok", "no_object"} : RegisterNode(hostname, mem)
    \/ \E node_id \in 0..MaxNodes, reachable \in BOOLEAN :
          Connect(node_id, reachable)
    \/ ReplaceManager

SpecManagers == InitSync /\ [][NextManagers]_vars

(* C24: the k-th node registered with a manager has id k, whatever was     *)
(* registered with other managers (the list holds the nodes newest first). *)
C24_IdsCountPerManager ==
    LET nodes == Deref(das).nodes
    IN  \A i \in 1..Len(nodes) : nodes[i].node_id = Len(nodes) - i + 1

(* What the network can do to a connection attempt.                        *)
AddrOutcomes == {"no_socket", "refused", "accepted"}

AddrSet == {<<>>} \cup {<<x>> : x \in AddrOutcomes}
               \cup {<<x, y>> : x \in AddrOutcomes, y \in AddrOutcomes}

(* The descriptors connect_to_node can return for the manager's next       *)
(* connection attempt.                                                     *)
SockSet ==
    {connect_to_node(resolved, addrs, Cardinality(socks) + 3) :
        resolved \in BOOLEAN, addrs \in AddrSet}

(* C25: a node is not connected when it has just been registered, and a    *)
(* connect that fails (unknown id, name not resolved, no address accepts)  *)
(* returns -1 and leaves the connected flag and the socket of every node   *)
(* as they were.                                                           *)
C25_FailedConnectChangesNothing ==
    LET d == Deref(das)
    IN  /\ \A hostname \in {NULL, Ptr(<<104>>)}, mem \in {"ok", "no_object"} :
              LET r == distributed_atomspace_add_node(d, hostname, next_id,
                                                      mem)
              IN  r.ret # 0 =>
                      r.das.nodes[find_node(r.das, r.ret)].connected = 0
        /\ \A node_id \in 0..(MaxNodes + 1), sock \in SockSet :
              LET r == distributed_atomspace_connect(d, node_id, sock)
              IN  (find_node(d, node_id) = 0 \/ sock < 0) =>
                      /\ r.ret = -1
                      /\ r.das.nodes = d.nodes

(* Two nodes are registered, one connected and one not: a failed connect   *)
(* to either has a flag and a socket to preserve.                          *)
C25_Witness ==
    /\ Len(Deref(das).nodes) = 2
    /\ Deref(das).nodes[1].connected = 0
    /\ Deref(das).nodes[2].connected = 1
    /\ Deref(das).nodes[2].atoms_synced \in socks

(***************************************************************************)
(* SpecSession: every operation of the manager on one manager: nodes are   *)
(* registered and connected, the three syncs run, conflicts are resolved.  *)
(***************************************************************************)
(* distributed_atomspace_sync_incremental(das, node_id) *)
SyncIncremental(node_id) ==
    /\ das' = Ptr(distributed_atomspace_sync_incremental(Deref(das), node_id,
                                                         now).das)
    /\ UNCHANGED <<storeVars, wire, next_id, socks, res, libVars>>

(* distributed_atomspace_sync_atom(das, atom) *)
SyncAtom(atom) ==
    /\ AtomsSent(Deref(das)) < MaxSingle
    /\ das' = Ptr(distributed_atomspace_sync_atom(Deref(das), atom).das)
    /\ UNCHANGED <<storeVars, wire, next_id, socks, res, libVars>>

NextSession ==
    \/ Tick
    \/ \E mem \in {"ok", "no_object"} : RegisterNode(Ptr(<<104>>), mem)
    \/ \E node_id \in 0..MaxNodes, reachable \in BOOLEAN :
          Connect(node_id, reachable)
    \/ \E node_id \in 0..MaxNodes, drop \in {{}, SendPairs} :
          /\ drop = {} => AtomsSent(Deref(das)) < MaxSingle
          /\ SyncFull(node_id, drop)
    \/ \E node_id \in 0..MaxNodes : SyncIncremental(node_id)
    \/ \E atom \in {NULL} \cup {Ptr(a) : a \in AtomSet("as")} : SyncAtom(atom)
    \/ \E laddr \in FirstAtom("as"), remote \in RemoteAtomSet :
          /\ remote.last_accessed = 0
          /\ remote.tv.confidence = Q(3, 4)
          /\ ResolveConflict(laddr, remote, "ok")

(* The local store holds one atom.                                         *)
InitSession ==
    /\ InitSync
    /\ Store("as").atom_count = 1

SpecSession == InitSession /\ [][NextSession]_vars

(* C26: a node that is connected is still connected after every step of    *)
(* the manager: a sync_full whose sends fail, sync_incremental, sync_atom, *)
(* resolve_conflict, a failed connect.                                     *)
C26_StaysConnected ==
    [][\A i \in 1..Len(Deref(das).nodes) :
          Deref(das).nodes[i].connected # 0 =>
              LET j == find_node(Deref(das'), Deref(das).nodes[i].node_id)
              IN  /\ j # 0
                  /\ Deref(das').nodes[j].connected # 0]_vars

(* A connected node after a sync_full in which every send failed (the      *)
(* node was synced at time 1, nothing was sent), a sync_incremental and a  *)
(* resolved conflict.                                                      *)
C26_Witness ==
    /\ \E i \in 1..Len(Deref(das).nodes) :
          /\ Deref(das).nodes[i].connected # 0
          /\ Deref(das).nodes[i].last_sync = 1
    /\ Store("as").atom_count > 0
    /\ Deref(das).sync_state.atoms_sent = 0
    /\ Deref(das).sync_state.last_incremental_sync = 1
    /\ Deref(das).sync_state.conflicts_resolved = 1

(***************************************************************************)
(* The learning history and its file.  A context is its history list,      *)
(* oldest entry first, with history_count, the two parameters and the      *)
(* statistics.  The file is the header fields, the records that are whole, *)
(* the record the file ends inside (rest: the record and the field that is *)
(* cut, NULL when the file ends at a record boundary), and the statistics  *)
(* block (NULL when the file ends before it).                              *)
(***************************************************************************)
history_record(entry) ==
    LET module_len == IF entry.module_name # NULL
                      THEN Len(Deref(entry.module_name)) ELSE 0
        host_len   == IF entry.host_name # NULL
                      THEN Len(Deref(entry.host_name)) ELSE 0
    IN  [module_len        |-> module_len,
         module_name       |-> IF module_len > 0
                               THEN Deref(entry.module_name) ELSE <<>>,
         host_len          |-> host_len,
         host_name         |-> IF host_len > 0
                               THEN Deref(entry.host_name) ELSE <<>>,
         success           |-> entry.success,
         bytes_transferred |-> entry.bytes_transferred,
         duration          |-> entry.duration,
         timestamp         |-> entry.timestamp]

(* learning_history_save, after fopen succeeded: the bytes written          *)
learning_history_file(ctx) ==
    [magic         |-> LEARNING_FILE_MAGIC,
     version       |-> LEARNING_FILE_VERSION,
     count         |-> ctx.history_count,
     learning_rate |-> ctx.learning_rate,
     decay_factor  |-> ctx.decay_factor,
     recs          |-> [i \in 1..Len(ctx.history) |->
                           history_record(ctx.history[i])],
     rest          |-> NULL,
     stats         |-> Ptr(ctx.stats)]

(* learning_history_save(ctx, filename); io is "ok" or, when fopen fails,  *)
(* "no_open"; old is the file at the path before the call.                 *)
learning_history_save(ctx, filename, io, old) ==
    IF ctx = NULL \/ filename = NULL THEN [file |-> old, ret |-> -1]
    ELSE IF io = "no_open" THEN [file |-> old, ret |-> -1]
    ELSE [file |-> Ptr(learning_history_file(Deref(ctx))),
          ret  |-> Len(Deref(ctx).history)]

(* atomspace_save(atomspace, filename) *)
atomspace_save(atomspace, filename, io, old) ==
    IF atomspace = NULL \/ filename = NULL THEN [file |-> old, ret |-> -1]
    ELSE IF io = "no_open" THEN [file |-> old, ret |-> -1]
    ELSE [file |-> Ptr(atomspace_save_binary(Deref(atomspace))),
          ret  |-> Len(Atoms(Deref(atomspace)))]

(***************************************************************************)
(* learning_history_load.  The fields of a record, in file order; the      *)
(* first four are read with a checked fread, the metrics with unchecked    *)
(* ones.  An fread that meets the end of the file inside its item leaves   *)
(* an indeterminate value in it (junk); the items after it are not read    *)
(* and keep the 0 of memset.                                               *)
(***************************************************************************)
RecordFields ==
    <<"module_len", "module_name", "host_len", "host_name",
      "success", "bytes_transferred", "duration", "timestamp">>

FieldIndex(field) == CHOOSE i \in 1..Len(RecordFields) : RecordFields[i] = field

CheckedFields == {"module_len", "module_name", "host_len", "host_name"}

(* The entry made from a record of which the fields before cut were read   *)
(* (cut = 9: all of them).                                                 *)
history_entry(rec, cut, junk) ==
    LET Got(field, v) == IF FieldIndex(field) < cut THEN v
                         ELSE IF FieldIndex(field) = cut THEN junk
                         ELSE 0
    IN  [entry_id          |-> 0,
         module_name       |-> IF rec.module_len > 0
                               THEN Ptr(rec.module_name) ELSE NULL,
         host_name         |-> IF rec.host_len > 0
                               THEN Ptr(rec.host_name) ELSE NULL,
         success           |-> Got("success", rec.success),
         bytes_transferred |-> Got("bytes_transferred",
                                   rec.bytes_transferred),
         duration          |-> Got("duration", rec.duration),
         timestamp         |-> Got("timestamp", rec.timestamp)]

(* for (i = 0; i < count; i++): the entries appended, in order *)
RECURSIVE load_entries(_, _, _)
load_entries(f, i, junk) ==
    IF i > f.count THEN <<>>
    ELSE IF i <= Len(f.recs)
    THEN <<history_entry(f.recs[i], Len(RecordFields) + 1, junk)>>
             \o load_entries(f, i + 1, junk)
    ELSE IF i = Len(f.recs) + 1 /\ f.rest # NULL
    THEN IF Deref(f.rest).cut \in CheckedFields THEN <<>>
         ELSE <<history_entry(Deref(f.rest).rec,
                              FieldIndex(Deref(f.rest).cut), junk)>>
    ELSE <<>>

learning_history_load(ctx, f, junk) ==
    IF ctx = NULL \/ f = NULL THEN [ctx |-> ctx, ret |-> -1]
    ELSE IF Deref(f).magic # LEARNING_FILE_MAGIC
    THEN [ctx |-> ctx, ret |-> -1]
    ELSE IF Deref(f).version # LEARNING_FILE_VERSION
    THEN [ctx |-> ctx, ret |-> -1]
    ELSE
    LET c       == Deref(ctx)
        entries == load_entries(Deref(f), 1, junk)
        loaded  == Len(entries)
    IN  [ctx |-> Ptr([c EXCEPT
                        !.history       = @ \o entries,
                        !.history_count = loaded,
                        !.learning_rate = Deref(f).learning_rate,
                        !.decay_factor  = Deref(f).decay_factor,
                        !.stats = IF Deref(f).stats # NULL
                                     /\ loaded = Deref(f).count
                                  THEN Deref(Deref(f).stats) ELSE @]),
         ret |-> loaded]

(***************************************************************************)
(* persistence_init, persistence_auto_save, persistence_shutdown.  p is    *)
(* the statics and the learning file, f the snapshot file, t the clock,    *)
(* io_a and io_l what fopen does at the two paths.  wrote is the set of    *)
(* files the call opened and wrote.                                        *)
(***************************************************************************)
Written(a_ret, l_ret) ==
    {k \in {"atomspace", "learning"} :
        \/ k = "atomspace" /\ a_ret >= 0
        \/ k = "learning" /\ l_ret >= 0}

persistence_init(p, config, t) ==
    IF config = NULL THEN [pst |-> p, ret |-> -1]
    ELSE [pst |-> [p EXCEPT !.global_config = config,
                            !.last_auto_save = t],
          ret |-> 0]

persistence_auto_save_any_time(p, f, atomspace, learning_ctx, t, io_a, io_l) ==
    IF p.global_config = NULL
    THEN [pst |-> p, file |-> f, ret |-> 0, wrote |-> {}]
    ELSE
    LET config == Deref(p.global_config)
        a == IF atomspace # NULL /\ config.atomspace_path # NULL
             THEN atomspace_save(atomspace, config.atomspace_path, io_a, f)
             ELSE [file |-> f, ret |-> -1]
        l == IF learning_ctx # NULL /\ config.learning_path # NULL
             THEN learning_history_save(learning_ctx, config.learning_path,
                                        io_l, p.learning)
             ELSE [file |-> p.learning, ret |-> -1]
    IN  IF config.auto_save_enabled = 0
        THEN [pst |-> p, file |-> f, ret |-> 0, wrote |-> {}]
        ELSE [pst   |-> [p EXCEPT !.last_auto_save = t,
                                  !.learning = l.file],
              file  |-> a.file,
              ret   |-> 1,
              wrote |-> Written(a.ret, l.ret)]

persistence_auto_save(p, f, atomspace, learning_ctx, t, io_a, io_l) ==
    IF p.global_config = NULL
    THEN [pst |-> p, file |-> f, ret |-> 0, wrote |-> {}]
    ELSE
    LET config == Deref(p.global_config)
        a == IF atomspace # NULL /\ config.atomspace_path # NULL
             THEN atomspace_save(atomspace, config.atomspace_path, io_a, f)
             ELSE [file |-> f, ret |-> -1]
        l == IF learning_ctx # NULL /\ config.learning_path # NULL
             THEN learning_history_save(learning_ctx, config.learning_path,
                                        io_l, p.learning)
             ELSE [file |-> p.learning, ret |-> -1]
    IN  IF config.auto_save_enabled = 0
        THEN [pst |-> p, file |-> f, ret |-> 0, wrote |-> {}]
        ELSE IF t - p.last_auto_save < config.auto_save_interval
        THEN [pst |-> p, file |-> f, ret |-> 0, wrote |-> {}]
        ELSE [pst   |-> [p EXCEPT !.last_auto_save = t,
                                  !.learning = l.file],
              file  |-> a.file,
              ret   |-> 1,
              wrote |-> Written(a.ret, l.ret)]

persistence_shutdown(p, f, atomspace, learning_ctx, io_a, io_l) ==
    IF p.global_config = NULL
    THEN [pst |-> p, file |-> f, ret |-> 0, wrote |-> {}]
    ELSE
    LET config == Deref(p.global_config)
        a == IF atomspace # NULL /\ config.atomspace_path # NULL
             THEN atomspace_save(atomspace, config.atomspace_path, io_a, f)
             ELSE [file |-> f, ret |-> -1]
        l == IF learning_ctx # NULL /\ config.learning_path # NULL
             THEN learning_history_save(learning_ctx, config.learning_path,
                                        io_l, p.learning)
             ELSE [file |-> p.learning, ret |-> -1]
        result == (IF a.ret >= 0 THEN 1 ELSE 0) + (IF l.ret >= 0 THEN 1 ELSE 0)
    IN  [pst   |-> [p EXCEPT !.learning = l.file],
         file  |-> a.file,
         ret   |-> IF result > 0 THEN 0 ELSE -1,
         wrote |-> Written(a.ret, l.ret)]

(***************************************************************************)
(* SpecAutoSave: a process installs a configuration, lets time pass, and   *)
(* calls persistence_auto_save and persistence_shutdown.  res is the last  *)
(* call: what it was given, what it returned and wrote, and since, the     *)
(* time of the last installation or performed auto-save before and after   *)
(* it.                                                                     *)
(***************************************************************************)
Config(atomspace_path, learning_path, enabled, interval) ==
    [atomspace_path |-> atomspace_path, learning_path |-> learning_path,
     auto_save_enabled |-> enabled, auto_save_interval |-> interval]

ConfigSet ==
    {Config(Ptr(<<97>>), Ptr(<<108>>), 1, 1),
     Config(Ptr(<<97>>), Ptr(<<108>>), 1, 2),
     Config(Ptr(<<97>>), Ptr(<<108>>), 0, 1),
     Config(NULL, Ptr(<<108>>), 1, 1),
     Config(NULL, NULL, 1, 1)}

HistoryEntry ==
    [entry_id |-> 1, module_name |-> Ptr(<<97, 122>>),
     host_name |-> Ptr(<<104>>), success |-> 1, bytes_transferred |-> 5,
     duration |-> 2, timestamp |-> 1]

ZeroStats ==
    [total_observations |-> 0, truth_value_updates |-> 0,
     patterns_learned |-> 0, predictions_correct |-> 0,
     predictions_incorrect |-> 0, prediction_accuracy |-> Q(0, 1)]

(* A learning context that has recorded the entries of history.            *)
LearningContext(history) ==
    [history |-> history, history_count |-> Len(history),
     learning_rate |-> Q(1, 8), decay_factor |-> Q(7, 8),
     stats |-> [ZeroStats EXCEPT !.total_observations = Len(history)]]

Since == IF res = NULL THEN NULL ELSE Deref(res).since

Tried(atomspace, learning_ctx) ==
    IF pst.global_config = NULL THEN {}
    ELSE {k \in {"atomspace", "learning"} :
            \/ /\ k = "atomspace"
               /\ atomspace # NULL
               /\ Deref(pst.global_config).atomspace_path # NULL
            \/ /\ k = "learning"
               /\ learning_ctx # NULL
               /\ Deref(pst.global_config).learning_path # NULL}

Elapse ==
    /\ now < MaxClock
    /\ now' = now + 1
    /\ UNCHANGED <<spaces, file, wire, das, next_id, socks, res, libVars>>

PersistenceInit(config) ==
    /\ pst.global_config = NULL
    /\ LET r == persistence_init(pst, config, now)
       IN  /\ pst' = r.pst
           /\ res' = Ptr([op |-> "init", ret |-> r.ret, at |-> now,
                          config |-> pst.global_config,
                          prev |-> Since,
                          since |-> IF r.ret = 0 THEN Ptr(now) ELSE Since,
                          first |-> TRUE,
                          tried |-> {}, wrote |-> {}, changed |-> FALSE])
    /\ UNCHANGED <<spaces, file, now, wire, das, next_id, socks, pln>>

AutoSave(atomspace, learning_ctx, io_a, io_l) ==
    /\ LET r == persistence_auto_save(pst, file, atomspace, learning_ctx,
                                      now, io_a, io_l)
       IN  /\ pst' = r.pst
           /\ file' = r.file
           /\ res' = Ptr([op |-> "auto_save", ret |-> r.ret, at |-> now,
                          config |-> pst.global_config,
                          prev |-> Since,
                          since |-> IF r.ret = 1 THEN Ptr(now) ELSE Since,
                          first |-> IF res = NULL THEN TRUE
                                    ELSE Deref(res).first /\ r.ret # 1,
                          tried |-> Tried(atomspace, learning_ctx),
                          wrote |-> r.wrote,
                          changed |-> r.file # file
                                         \/ r.pst.learning # pst.learning])
    /\ UNCHANGED <<spaces, now, wire, das, next_id, socks, pln>>

Shutdown(atomspace, learning_ctx, io_a, io_l) ==
    /\ LET r == persistence_shutdown(pst, file, atomspace, learning_ctx,
                                     io_a, io_l)
       IN  /\ pst' = r.pst
           /\ file' = r.file
           /\ res' = Ptr([op |-> "shutdown", ret |-> r.ret, at |-> now,
                          config |-> pst.global_config,
                          prev |-> Since, since |-> Since,
                          first |-> IF res = NULL THEN TRUE
                                    ELSE Deref(res).first,
                          tried |-> Tried(atomspace, learning_ctx),
                          wrote |-> r.wrote,
                          changed |-> r.file # file
                                         \/ r.pst.learning # pst.learning])
    /\ UNCHANGED <<spaces, now, wire, das, next_id, socks, pln>>

IoSet == {"ok", "no_open"}

NextAutoSave ==
    \/ Elapse
    \/ \E config \in {NULL} \cup {Ptr(c) : c \in ConfigSet} :
          PersistenceInit(config)
    \/ \E atomspace \in {NULL, spaces["as"]},
          learning_ctx \in {NULL, Ptr(LearningContext(<<HistoryEntry>>))},
          io_a \in IoSet, io_l \in IoSet :
          AutoSave(atomspace, learning_ctx, io_a, io_l)
    \/ \E atomspace \in {NULL, spaces["as"]},
          learning_ctx \in {NULL, Ptr(LearningContext(<<HistoryEntry>>))},
          io_a \in IoSet, io_l \in IoSet :
          Shutdown(atomspace, learning_ctx, io_a, io_l)

(* The store holds one atom; nothing is installed, no file exists.         *)
InitAutoSave ==
    /\ spaces = [st \in StoreIds |->
                    IF st = "as" THEN Ptr(StoreWith(1)) ELSE NULL]
    /\ file = NULL
    /\ now = 0
    /\ wire = NULL
    /\ das = NULL
    /\ next_id = 1
    /\ socks = {}
    /\ res = NULL
    /\ InitLib

SpecAutoSave == InitAutoSave /\ [][NextAutoSave]_vars

(* The call was made with a configuration installed, auto-save enabled,    *)
(* and at least auto_save_interval seconds after the last performed        *)
(* auto-save or the installation.                                          *)
Due(r) ==
    /\ r.config # NULL
    /\ Deref(r.config).auto_save_enabled # 0
    /\ r.prev # NULL
    /\ r.at - Deref(r.prev) >= Deref(r.config).auto_save_interval

(* C27: persistence_auto_save returns 1, having saved, exactly when a      *)
(* configuration is installed, auto-save is enabled and at least           *)
(* auto_save_interval seconds have passed since the last performed         *)
(* auto-save or the installation; otherwise it returns 0 and writes        *)
(* nothing.  Two performed auto-saves are at least one interval apart.     *)
C27_AutoSaveWhenDue ==
    (res # NULL /\ Deref(res).op = "auto_save") =>
        LET r == Deref(res)
        IN  /\ r.ret = 1 <=> Due(r)
            /\ ~Due(r) => r.ret = 0 /\ r.wrote = {} /\ ~r.changed
            /\ r.ret = 1 => r.since = Ptr(r.at)

(* The second performed auto-save of a session: it wrote both files, one   *)
(* interval or more after the first.                                       *)
C27_Witness ==
    /\ res # NULL
    /\ Deref(res).op = "auto_save"
    /\ Deref(res).ret = 1
    /\ ~Deref(res).first
    /\ Deref(res).wrote = {"atomspace", "learning"}
    /\ Deref(res).at - Deref(Deref(res).prev) >= 1
    /\ pst.learning # NULL /\ file # NULL

(* C28: persistence_shutdown returns 0 only if it wrote at least one of    *)
(* the two files; when it wrote nothing, as when no configuration is       *)
(* installed, it does not return 0.                                        *)
C28_ShutdownSuccessMeansWritten ==
    (res # NULL /\ Deref(res).op = "shutdown") =>
        (Deref(res).ret = 0 => Deref(res).wrote # {})

(* C29: persistence_auto_save returns 1 if it saved, 0 if no save was      *)
(* needed, and -1 when a save was due but a file could not be written.     *)
C29_AutoSaveReportsFailure ==
    (res # NULL /\ Deref(res).op = "auto_save") =>
        LET r == Deref(res)
        IN  /\ r.ret \in {1, 0, -1}
            /\ ~Due(r) => r.ret = 0
            /\ (Due(r) /\ r.tried \ r.wrote # {}) => r.ret = -1
            /\ (Due(r) /\ r.tried \ r.wrote = {}) => r.ret = 1

(***************************************************************************)
(* SpecHistory: a learning history is saved, the file is cut inside one of *)
(* its records, and it is loaded into a fresh context.  res is the load:   *)
(* the file read, the context after it and the value returned.             *)
(***************************************************************************)
EntrySet ==
    {HistoryEntry,
     [HistoryEntry EXCEPT !.entry_id = 2, !.host_name = NULL,
                          !.success = 0, !.timestamp = 3]}

HistorySet == UNION {[1..n -> EntrySet] : n \in 0..MaxHistory}

SaveHistory(history) ==
    /\ pst.learning = NULL
    /\ pst' = [pst EXCEPT !.learning =
                  learning_history_save(Ptr(LearningContext(history)),
                                        Ptr(<<108>>), "ok", @).file]
    /\ UNCHANGED <<spaces, file, now, wire, das, next_id, socks, res, pln>>

(* The fields of a record that have bytes in the file.                     *)
FieldsOf(rec) ==
    {field \in SeqToSet(RecordFields) :
        /\ field = "module_name" => rec.module_len > 0
        /\ field = "host_name" => rec.host_len > 0}

(* The file ends inside field cut of its j-th record.                      *)
CutHistory(j, cut) ==
    /\ pst.learning # NULL
    /\ Deref(pst.learning).rest = NULL
    /\ Deref(pst.learning).stats # NULL
    /\ j \in 1..Len(Deref(pst.learning).recs)
    /\ cut \in FieldsOf(Deref(pst.learning).recs[j])
    /\ pst' = [pst EXCEPT !.learning =
                  Ptr([Deref(@) EXCEPT
                          !.recs  = SubSeq(@, 1, j - 1),
                          !.rest  = Ptr([rec |-> Deref(pst.learning).recs[j],
                                         cut |-> cut]),
                          !.stats = NULL])]
    /\ UNCHANGED <<spaces, file, now, wire, das, next_id, socks, res, pln>>

(* loaded = learning_history_load(ctx, filename), ctx fresh *)
LoadHistory(junk) ==
    /\ pst.learning # NULL
    /\ LET r == learning_history_load(Ptr(LearningContext(<<>>)),
                                      pst.learning, junk)
       IN  res' = Ptr([file |-> Deref(pst.learning),
                       ctx  |-> Deref(r.ctx),
                       ret  |-> r.ret])
    /\ UNCHANGED <<spaces, file, now, wire, das, next_id, socks, libVars>>

NextHistory ==
    \/ \E history \in HistorySet : SaveHistory(history)
    \/ \E j \in 1..MaxHistory, cut \in SeqToSet(RecordFields) :
          CutHistory(j, cut)
    \/ \E junk \in {0, 7} : LoadHistory(junk)

SpecHistory == Init /\ [][NextHistory]_vars

(* C30: when the file ends inside a record, the load stops at that record: *)
(* the history holds exactly the entries of the records before it, and     *)
(* the value returned and history_count are their number.                  *)
C30_TruncatedHistoryKeepsWhole ==
    (res # NULL /\ Deref(res).file.rest # NULL) =>
        LET r    == Deref(res)
            recs == r.file.recs
        IN  /\ r.ctx.history =
                  [i \in 1..Len(recs) |->
                      history_entry(recs[i], Len(RecordFields) + 1, 0)]
            /\ r.ret = Len(recs)
            /\ r.ctx.history_count = Len(recs)

(***************************************************************************)
(* distributed_atomspace_sync_full, one send at a time.  A pass p is the   *)
(* position of the call: pc ("node": at the head of the loop over the      *)
(* nodes, "atoms": inside the loops over the hash table, "done":           *)
(* returned), the argument node_id, the index i of the node in the list,   *)
(* the atom sent last for that node (the successor of which is read from   *)
(* the table when the send returns), the counter synced, and log, the      *)
(* sends made: target, atom as it was serialized, and whether send_atom    *)
(* returned 0.  The attention queue is never written after calloc, so its  *)
(* loop sends nothing.  lost says whether the network fails the send.      *)
(***************************************************************************)
sync_full_begin(node_id) ==
    [pc |-> "node", node_id |-> node_id, i |-> 1, last |-> NULL,
     synced |-> 0, log |-> <<>>, ret |-> NULL]

(* The atoms the traversal has still to visit after the atom at last. *)
AfterLast(local, last) ==
    LET atoms == Atoms(local)
    IN  IF last = NULL THEN atoms
        ELSE LET pos == CHOOSE k \in 1..Len(atoms) :
                            atoms[k].addr = Deref(last)
             IN  SubSeq(atoms, pos + 1, Len(atoms))

sync_full_step_retries(p, d, local, open, lost, t) ==
    IF p.pc = "node"
    THEN IF p.i > Len(d.nodes)
         THEN [pass |-> [p EXCEPT !.pc = "done", !.ret = Ptr(p.synced)],
               das  |-> d]
         ELSE IF ~(p.node_id = 0 \/ d.nodes[p.i].node_id = p.node_id)
                 \/ d.nodes[p.i].connected = 0
         THEN [pass |-> [p EXCEPT !.i = @ + 1], das |-> d]
         ELSE [pass |-> [p EXCEPT !.pc = "atoms", !.last = NULL], das |-> d]
    ELSE
    LET rest == AfterLast(local, p.last)
        node == d.nodes[p.i]
    IN  IF rest # <<>>
        THEN LET atom == rest[1]
                 r == SendResult(node, atom, open,
                                 IF lost THEN {<<node.node_id, atom.addr>>}
                                 ELSE {}, t)
             IN  [pass |-> [p EXCEPT
                               !.last   = IF r = 0 THEN Ptr(atom.addr) ELSE @,
                               !.synced = IF r = 0 THEN @ + 1 ELSE @,
                               !.log    = Append(@, [node |-> node.node_id,
                                                     atom |-> atom,
                                                     ok   |-> r = 0])],
                  das  |-> d]
        ELSE [pass |-> IF p.node_id # 0
                       THEN [p EXCEPT !.pc = "done", !.ret = Ptr(p.synced)]
                       ELSE [p EXCEPT !.pc = "node", !.i = @ + 1],
              das  |-> [d EXCEPT
                          !.nodes[p.i].last_sync = t,
                          !.sync_state.atoms_sent = @ + p.synced,
                          !.sync_state.last_full_sync = t]]

sync_full_step_unconnected(p, d, local, open, lost, t) ==
    IF p.pc = "node"
    THEN IF p.i > Len(d.nodes)
         THEN [pass |-> [p EXCEPT !.pc = "done", !.ret = Ptr(p.synced)],
               das  |-> d]
         ELSE IF ~(p.node_id = 0 \/ d.nodes[p.i].node_id = p.node_id)
         THEN [pass |-> [p EXCEPT !.i = @ + 1], das |-> d]
         ELSE [pass |-> [p EXCEPT !.pc = "atoms", !.last = NULL], das |-> d]
    ELSE
    LET rest == AfterLast(local, p.last)
        node == d.nodes[p.i]
    IN  IF rest # <<>>
        THEN LET atom == rest[1]
                 r == SendResult(node, atom, open,
                                 IF lost THEN {<<node.node_id, atom.addr>>}
                                 ELSE {}, t)
             IN  [pass |-> [p EXCEPT
                               !.last   = Ptr(atom.addr),
                               !.synced = IF r = 0 THEN @ + 1 ELSE @,
                               !.log    = Append(@, [node |-> node.node_id,
                                                     atom |-> atom,
                                                     ok   |-> r = 0])],
                  das  |-> d]
        ELSE [pass |-> IF p.node_id # 0
                       THEN [p EXCEPT !.pc = "done", !.ret = Ptr(p.synced)]
                       ELSE [p EXCEPT !.pc = "node", !.i = @ + 1],
              das  |-> [d EXCEPT
                          !.nodes[p.i].last_sync = t,
                          !.sync_state.atoms_sent = @ + p.synced,
                          !.sync_state.last_full_sync = t]]

sync_full_step(p, d, local, open, lost, t) ==
    IF p.pc = "node"
    THEN IF p.i > Len(d.nodes)
         THEN [pass |-> [p EXCEPT !.pc = "done", !.ret = Ptr(p.synced)],
               das  |-> d]
         ELSE IF ~(p.node_id = 0 \/ d.nodes[p.i].node_id = p.node_id)
                 \/ d.nodes[p.i].connected = 0
         THEN [pass |-> [p EXCEPT !.i = @ + 1], das |-> d]
         ELSE [pass |-> [p EXCEPT !.pc = "atoms", !.last = NULL], das |-> d]
    ELSE
    LET rest == AfterLast(local, p.last)
        node == d.nodes[p.i]
    IN  IF rest # <<>>
        THEN LET atom == rest[1]
                 r == SendResult(node, atom, open,
                                 IF lost THEN {<<node.node_id, atom.addr>>}
                                 ELSE {}, t)
             IN  [pass |-> [p EXCEPT
                               !.last   = Ptr(atom.addr),
                               !.synced = IF r = 0 THEN @ + 1 ELSE @,
                               !.log    = Append(@, [node |-> node.node_id,
                                                     atom |-> atom,
                                                     ok   |-> r = 0])],
                  das  |-> d]
        ELSE [pass |-> IF p.node_id # 0
                       THEN [p EXCEPT !.pc = "done", !.ret = Ptr(p.synced)]
                       ELSE [p EXCEPT !.pc = "node", !.i = @ + 1],
              das  |-> [d EXCEPT
                          !.nodes[p.i].last_sync = t,
                          !.sync_state.atoms_sent = @ + p.synced,
                          !.sync_state.last_full_sync = t]]

(***************************************************************************)
(* SpecPass: nodes are registered and connected, then one sync_full call   *)
(* runs send by send; res is the pass.  Nothing else runs during the pass. *)
(***************************************************************************)
InFlight == res # NULL /\ Deref(res).pc # "done"

BeginPass(node_id) ==
    /\ res = NULL
    /\ res' = Ptr(sync_full_begin(node_id))
    /\ UNCHANGED <<storeVars, wire, das, next_id, socks, libVars>>

Lost(p) == {k \in 1..Len(p.log) : ~p.log[k].ok}

PassStep(lost) ==
    /\ InFlight
    /\ lost => Cardinality(Lost(Deref(res))) < MaxLost
    /\ LET r == sync_full_step(Deref(res), Deref(das), Store("as"), socks,
                               lost, now)
       IN  /\ res' = Ptr(r.pass)
           /\ das' = Ptr(r.das)
    /\ UNCHANGED <<storeVars, wire, next_id, socks, libVars>>

NextPass ==
    \/ res = NULL /\ RegisterNode(Ptr(<<104>>), "ok")
    \/ \E node_id \in 1..MaxNodes : res = NULL /\ Connect(node_id, TRUE)
    \/ \E node_id \in 0..MaxNodes : BeginPass(node_id)
    \/ \E lost \in BOOLEAN : PassStep(lost)

(* The local store holds as many atoms as sends can be lost; the clock     *)
(* reads a time after the epoch.                                           *)
InitPass ==
    /\ spaces = [st \in StoreIds |->
                    IF st = "as" THEN Ptr(StoreWith(MaxLost)) ELSE NULL]
    /\ file = NULL
    /\ now = 1
    /\ wire = NULL
    /\ das = Ptr(distributed_atomspace_create("as"))
    /\ next_id = 1
    /\ socks = {}
    /\ res = NULL
    /\ InitLib

SpecPass == InitPass /\ [][NextPass]_vars

(* The pass is not starved of the processor.                               *)
FairSpecPass == SpecPass /\ WF_vars(\E lost \in BOOLEAN : PassStep(lost))

(* The targets of a pass: the connected nodes its argument selects, or     *)
(* only the first of them when the argument names a node.                  *)
Selected(d, node_id) ==
    {k \in 1..Len(d.nodes) :
        /\ node_id = 0 \/ d.nodes[k].node_id = node_id
        /\ d.nodes[k].connected # 0}

Targets(d, node_id) ==
    LET sel == Selected(d, node_id)
    IN  IF node_id = 0 \/ sel = {} THEN {d.nodes[k].node_id : k \in sel}
        ELSE {d.nodes[Min(sel)].node_id}

Attempts(p, node, addr) ==
    {k \in 1..Len(p.log) : p.log[k].node = node /\ p.log[k].atom.addr = addr}

(* No (target, atom) pair is sent twice, and the pass that has returned    *)
(* has sent every atom of the store to every target once, whatever sends   *)
(* failed, and returned the number of sends that succeeded.                *)
PassSendsOnce ==
    res # NULL =>
        LET p == Deref(res)
        IN  /\ \A k \in 1..Len(p.log) :
                  Cardinality(Attempts(p, p.log[k].node,
                                       p.log[k].atom.addr)) = 1
            /\ p.pc = "done" =>
                  /\ \A node \in Targets(Deref(das), p.node_id),
                        addr \in AtomAddrs("as") :
                        Cardinality(Attempts(p, node, addr)) = 1
                  /\ \A k \in 1..Len(p.log) :
                        p.log[k].node \in Targets(Deref(das), p.node_id)
                  /\ p.ret = Ptr(Cardinality({k \in 1..Len(p.log) :
                                                 p.log[k].ok}))

PassFrame ==
    InFlight =>
        LET d  == Deref(das)
            sel == Selected(d, Deref(res).node_id)
        IN  /\ \A k \in 1..Len(d.nodes) :
                  k \notin sel => Deref(das').nodes[k] = d.nodes[k]
            /\ sel = {} => Deref(das').sync_state = d.sync_state

(* C32: sync_full(t) transmits only to connected nodes selected by t       *)
(* (every connected node when t is 0, the node with id t otherwise); a     *)
(* node that is not connected or not selected receives nothing and keeps   *)
(* its last_sync, and when no node is selected and connected the sync      *)
(* counters are unchanged.                                                 *)
C32_OnlySelectedConnected ==
    /\ [](res # NULL =>
            LET p == Deref(res)
                d == Deref(das)
            IN  \A k \in 1..Len(p.log) :
                   \E n \in Selected(d, p.node_id) :
                      d.nodes[n].node_id = p.log[k].node)
    /\ [][PassFrame]_vars

(* A pass for all nodes has returned after sending to the connected node   *)
(* and passing over a node that is not connected, whose last_sync is still *)
(* the one of its registration.                                            *)
C32_Witness ==
    /\ res # NULL
    /\ Deref(res).pc = "done"
    /\ Deref(res).node_id = 0
    /\ Deref(res).log # <<>>
    /\ \E k \in 1..Len(Deref(das).nodes) :
          /\ Deref(das).nodes[k].connected = 0
          /\ Deref(das).nodes[k].last_sync = 0
    /\ \E k \in 1..Len(Deref(das).nodes) :
          Deref(das).nodes[k].last_sync = now

(* C33: lookup is keyed on the full (type, name) pair although the bucket  *)
(* is chosen by the name alone.  In every reachable store find_node(T, n)  *)
(* returns an atom exactly when the store holds an atom of type T and name *)
(* n, and returns that atom; and add_node(T1, n) followed by               *)
(* add_node(T2, n), T1 # T2, return two distinct atoms with distinct       *)
(* handles.                                                                *)
C33_KeyedOnTypeAndName ==
    \A st \in Live : \A name \in NameSet \ {NULL} :
        /\ \A type \in TypeSet :
              LET r    == atomspace_find_node(Store(st), type, name, now)
                  held == {a \in AtomSet(st) :
                              a.type = type /\ a.name = name}
              IN  /\ r.ret # NULL <=> held # {}
                  /\ r.ret # NULL =>
                        \E a \in held :
                           /\ Deref(r.ret).addr = a.addr
                           /\ Deref(r.ret).handle = a.handle
        /\ \A T1, T2 \in TypeSet :
              LET first  == atomspace_add_node(Store(st), T1, name, now, "ok")
                  second == atomspace_add_node(first.as, T2, name, now, "ok")
              IN  (T1 # T2 /\ first.ret # NULL /\ second.ret # NULL) =>
                     /\ Deref(first.ret).addr # Deref(second.ret).addr
                     /\ Deref(first.ret).handle # Deref(second.ret).handle

(* C34: the descriptor stored for a connected node, on which sync_full     *)
(* sends, is changed by no step of the manager other than a connect that   *)
(* opens a socket: not by sync_atom, sync_full or sync_incremental.        *)
C34_DescriptorKept ==
    [][socks' = socks =>
          \A i \in 1..Len(Deref(das).nodes) :
             Deref(das).nodes[i].connected # 0 =>
                LET j == find_node(Deref(das'), Deref(das).nodes[i].node_id)
                IN  /\ j # 0
                    /\ Deref(das').nodes[j].atoms_synced
                          = Deref(das).nodes[i].atoms_synced]_vars

(* C35: in every reachable store, built by add_node and add_link calls     *)
(* that succeed or fail, or returned by a load, atom_count is the number   *)
(* of atoms on the chains of the atom table and link_count the number of   *)
(* links on the chains of the link table.                                  *)
C35_CountsMatchChains ==
    \A st \in Live :
        /\ Store(st).atom_count = Len(Atoms(Store(st)))
        /\ Store(st).link_count = Len(Links(Store(st)))

(* A store that holds an atom and a link and in which a call failed after  *)
(* it had taken a handle, and a store returned by a load that holds atoms. *)
C35_Witness ==
    /\ Store("as").atom_count >= 1
    /\ Store("as").link_count >= 1
    /\ Store("as").next_handle
          > Store("as").atom_count + Store("as").link_count + 1
    /\ spaces["ld"] # NULL
    /\ Store("ld").atom_count >= 1

(***************************************************************************)
(* learning_context_create over a store, without an inference context      *)
(* (pln_ctx = NULL).  max_history_size is DEFAULT_MAX_HISTORY in the code;  *)
(* the model keeps histories of at most MaxKept entries.                   *)
(***************************************************************************)
learning_context_create(atomspace) ==
    LearningContext(<<>>) @@ [atomspace        |-> atomspace,
                              pln_ctx          |-> NULL,
                              max_history_size |-> MaxKept]

(* while (ctx->history_count > ctx->max_history_size && ctx->history_head) *)
RECURSIVE enforce_max_history(_)
enforce_max_history(c) ==
    IF c.history_count > c.max_history_size /\ c.history # <<>>
    THEN enforce_max_history([c EXCEPT !.history = Tail(@),
                                       !.history_count = @ - 1])
    ELSE c

(***************************************************************************)
(* learning_record_sync, for a context without inference context: the      *)
(* entry is numbered history_count++, appended at the tail, the head is    *)
(* dropped while history_count exceeds max_history_size, the module's atom *)
(* is looked up and the observation counted.  s is the context's store,    *)
(* mem says whether malloc gave the entry.                                 *)
(***************************************************************************)
learning_record_sync(ctx, s, module_name, host_name, success, bytes, duration, t, mem) ==
    IF ctx = NULL \/ module_name = NULL
    THEN [ctx |-> ctx, as |-> s, ret |-> -1]
    ELSE IF mem = "no_object" THEN [ctx |-> ctx, as |-> s, ret |-> -1]
    ELSE
    LET c     == Deref(ctx)
        entry == [entry_id          |-> c.history_count,
                  module_name       |-> module_name,
                  host_name         |-> host_name,
                  success           |-> success,
                  bytes_transferred |-> bytes,
                  duration          |-> duration,
                  timestamp         |-> t]
        kept  == enforce_max_history(
                     [c EXCEPT !.history_count = @ + 1,
                               !.history = Append(@, entry)])
        found == atomspace_find_node(s, ATOM_MODULE, module_name, t)
    IN  [ctx |-> Ptr([kept EXCEPT !.stats.total_observations = @ + 1]),
         as  |-> found.as,
         ret |-> 0]

(***************************************************************************)
(* SpecRecord: one learning context records sync events while the clock    *)
(* advances; its history is saved to the learning file and the file is     *)
(* loaded into the same context.  res is the context.                      *)
(***************************************************************************)
InitRecord ==
    /\ spaces = [st \in StoreIds |->
                    IF st = "as" THEN Ptr(atomspace_create("as")) ELSE NULL]
    /\ file = NULL
    /\ now = 0
    /\ wire = NULL
    /\ das = NULL
    /\ next_id = 1
    /\ socks = {}
    /\ res = Ptr(learning_context_create("as"))
    /\ InitLib

(* learning_record_sync(ctx, "az", host_name, success, 5, 2) *)
RecordSync(host_name, success, mem) ==
    /\ Deref(res).stats.total_observations < MaxRecorded
    /\ LET r == learning_record_sync(res, Store("as"), Ptr(<<97, 122>>),
                                     host_name, success, 5, 2, now, mem)
       IN  /\ res' = r.ctx
           /\ spaces' = [spaces EXCEPT !["as"] = Ptr(r.as)]
    /\ UNCHANGED <<file, now, wire, das, next_id, socks, libVars>>

(* learning_history_save(ctx, path) *)
SaveContext ==
    /\ pst' = [pst EXCEPT !.learning =
                  learning_history_save(res, Ptr(<<108>>), "ok", @).file]
    /\ UNCHANGED <<spaces, file, now, wire, das, next_id, socks, res, pln>>

(* learning_history_load(ctx, path) *)
LoadContext ==
    /\ pst.learning # NULL
    /\ Len(Deref(res).history) <= MaxKept
    /\ res' = learning_history_load(res, pst.learning, 0).ctx
    /\ UNCHANGED <<spaces, file, now, wire, das, next_id, socks, libVars>>

NextRecord ==
    \/ Tick
    \/ \E success \in {0, 1}, mem \in {"ok", "no_object"} :
          RecordSync(Ptr(<<104>>), success, mem)
    \/ SaveContext
    \/ LoadContext

SpecRecord == InitRecord /\ [][NextRecord]_vars

(* C36: the history is bounded and consistent.  After any sequence of      *)
(* learning_record_sync and learning_history_load calls history_count is   *)
(* the number of entries of the history list and is at most                *)
(* max_history_size, the list holding the newest entries.                  *)
C36_HistoryBounded ==
    LET c == Deref(res)
    IN  /\ c.history_count = Len(c.history)
        /\ c.history_count <= c.max_history_size

(***************************************************************************)
(* SpecRace: while a sync_full pass is in flight another actor of the      *)
(* process sets truth values and adds nodes in the local store; no lock    *)
(* orders its writes with the reads of the pass.                           *)
(***************************************************************************)
NextRace ==
    \/ res = NULL /\ RegisterNode(Ptr(<<104>>), "ok")
    \/ \E node_id \in 1..MaxNodes : res = NULL /\ Connect(node_id, TRUE)
    \/ BeginPass(0)
    \/ PassStep(FALSE)
    \/ \E addr \in FirstAtom("as"), tv \in TvSet :
          InFlight /\ SetTv("as", addr, tv) /\ UNCHANGED <<das, res>>
    \/ \E node \in NodeSet :
          InFlight /\ AddNode("as", node[1], node[2], "ok")
              /\ UNCHANGED <<das, res>>

SpecRace == InitPass /\ [][NextRace]_vars

(* What a pass sent to a target: the atoms and their truth values.         *)
SentTo(p, node) ==
    {<<p.log[k].atom.addr, p.log[k].atom.tv>> :
        k \in {j \in 1..Len(p.log) : p.log[j].node = node}}

(* C37: when truth-value setters and add_node calls of another actor       *)
(* interleave with a sync_full(0) pass, every connected target of the pass *)
(* is sent the same set of atoms with the same truth values.               *)
C37_PassSendsSnapshot ==
    (res # NULL /\ Deref(res).pc = "done") =>
        \A n1, n2 \in Targets(Deref(das), 0) :
            SentTo(Deref(res), n1) = SentTo(Deref(res), n2)

(***************************************************************************)
(* Swarm formations (swarm_sync.c).  A formation is its state, its member  *)
(* list, newest member first, the address of its swarm atom and its        *)
(* statistics.  member_agent is zeroed by swarm_add_member and written     *)
(* nowhere, so swarm_sync_initiate sends no message.                       *)
(***************************************************************************)
swarm_create(coordinator, s, swarm_name, id, t, mem) ==
    IF coordinator = NULL \/ swarm_name = NULL
    THEN [swarm |-> NULL, as |-> s, next_swarm_id |-> id]
    ELSE IF mem = "no_object"
    THEN [swarm |-> NULL, as |-> s, next_swarm_id |-> id]
    ELSE
    LET r == atomspace_add_node(s, ATOM_SWARM, swarm_name, t,
                                IF mem = "no_atom" THEN "no_object" ELSE "ok")
    IN  IF r.ret = NULL
        THEN [swarm |-> NULL, as |-> r.as, next_swarm_id |-> id + 1]
        ELSE [swarm |-> Ptr([swarm_id          |-> id,
                             name              |-> Deref(swarm_name),
                             state             |-> SWARM_FORMING,
                             members           |-> <<>>,
                             member_count      |-> 0,
                             coordinator_agent |-> coordinator,
                             swarm_atom        |-> Ptr(Deref(r.ret).addr),
                             total_syncs       |-> 0,
                             total_bytes       |-> 0,
                             formation_time    |-> t,
                             last_activity     |-> t]),
              as |-> r.as, next_swarm_id |-> id + 1]

swarm_add_member(swarm, s, member_atom, hostname, port, t, mem) ==
    IF swarm = NULL \/ member_atom = NULL \/ hostname = NULL
    THEN [swarm |-> swarm, as |-> s, ret |-> -1]
    ELSE IF mem = "no_object" THEN [swarm |-> swarm, as |-> s, ret |-> -1]
    ELSE
    LET member == [member_atom  |-> member_atom,
                   member_agent |-> NULL,
                   hostname     |-> Deref(hostname),
                   port         |-> port,
                   state        |-> SWARM_FORMING,
                   last_sync    |-> t,
                   bytes_synced |-> 0]
    IN  [swarm |-> Ptr([Deref(swarm) EXCEPT !.members = <<member>> \o @,
                                            !.member_count = @ + 1]),
         as    |-> atom_set_sti(s, member_atom, 50),
         ret   |-> 0]

swarm_activate(swarm, s, t) ==
    IF swarm = NULL THEN [swarm |-> swarm, as |-> s, ret |-> -1]
    ELSE IF Deref(swarm).state # SWARM_FORMING
    THEN [swarm |-> swarm, as |-> s, ret |-> -1]
    ELSE [swarm |-> Ptr([Deref(swarm) EXCEPT
                            !.members = [i \in 1..Len(@) |->
                                            [@[i] EXCEPT
                                                !.state = SWARM_ACTIVE]],
                            !.state = SWARM_ACTIVE,
                            !.last_activity = t]),
          as    |-> atom_set_tv(s, Deref(swarm).swarm_atom, Q(1, 1),
                                RoundTwice(Q(19, 20), DBL_MANT_DIG,
                                           FLT_MANT_DIG)),
          ret   |-> 0]

(* swarm_sync_initiate; the state is set before the request is allocated   *)
swarm_sync_initiate(swarm, source_module, target_module, sync_flags, t, mem) ==
    IF swarm = NULL \/ source_module = NULL \/ target_module = NULL
    THEN [swarm |-> swarm, ret |-> -1]
    ELSE IF Deref(swarm).state # SWARM_ACTIVE
    THEN [swarm |-> swarm, ret |-> -1]
    ELSE IF mem = "no_object"
    THEN [swarm |-> Ptr([Deref(swarm) EXCEPT !.state = SWARM_COORDINATING]),
          ret   |-> -1]
    ELSE [swarm |-> Ptr([Deref(swarm) EXCEPT !.state = SWARM_COORDINATING,
                                             !.total_syncs = @ + 1,
                                             !.last_activity = t]),
          ret   |-> 0]

swarm_sync_coordinate(swarm) ==
    IF swarm = NULL THEN [swarm |-> swarm, ret |-> -1]
    ELSE
    LET sw           == Deref(swarm)
        active_count == Cardinality({i \in 1..Len(sw.members) :
                            \/ sw.members[i].state = SWARM_COORDINATING
                            \/ sw.members[i].state = SWARM_ACTIVE})
    IN  [swarm |-> IF active_count = 0 /\ sw.state = SWARM_COORDINATING
                   THEN Ptr([sw EXCEPT !.state = SWARM_ACTIVE])
                   ELSE swarm,
         ret   |-> active_count]

(***************************************************************************)
(* SpecCoord: one formation over a store of module atoms; members are      *)
(* added, the formation is activated, syncs are initiated and coordinated. *)
(* res is the formation with the last call made on it and its result.      *)
(***************************************************************************)
InitCoord ==
    /\ LET r == swarm_create(Ptr("agent"), StoreWith(MaxMembers),
                             Ptr(<<115>>), 1, 0, "ok")
       IN  /\ spaces = [st \in StoreIds |->
                           IF st = "as" THEN Ptr(r.as) ELSE NULL]
           /\ res = Ptr([swarm |-> r.swarm, op |-> "create", ret |-> 0])
    /\ file = NULL
    /\ now = 0
    /\ wire = NULL
    /\ das = NULL
    /\ next_id = 1
    /\ socks = {}
    /\ InitLib

SwarmCallOf(op, swarm, s, ret) ==
    /\ res' = Ptr([swarm |-> swarm, op |-> op, ret |-> ret])
    /\ spaces' = [spaces EXCEPT !["as"] = Ptr(s)]
    /\ UNCHANGED <<file, now, wire, das, next_id, socks, libVars>>

(* swarm_add_member(swarm, atom, "h", port) *)
AddMember(addr, mem) ==
    /\ Deref(res).swarm # NULL
    /\ Deref(Deref(res).swarm).member_count < MaxMembers
    /\ LET r == swarm_add_member(Deref(res).swarm, Store("as"), Ptr(addr),
                                 Ptr(<<104>>), 873, now, mem)
       IN  SwarmCallOf("add_member", r.swarm, r.as, r.ret)

(* swarm_activate(swarm) *)
Activate ==
    LET r == swarm_activate(Deref(res).swarm, Store("as"), now)
    IN  SwarmCallOf("activate", r.swarm, r.as, r.ret)

(* swarm_sync_initiate(swarm, "az", "bY", 0) *)
SyncInitiate(mem) ==
    /\ Deref(res).swarm # NULL
    /\ Deref(Deref(res).swarm).total_syncs < MaxSyncs
    /\ LET r == swarm_sync_initiate(Deref(res).swarm, Ptr(<<97, 122>>),
                                    Ptr(<<98, 89>>), 0, now, mem)
       IN  SwarmCallOf("sync_initiate", r.swarm, Store("as"), r.ret)

(* swarm_sync_coordinate(swarm) *)
SyncCoordinate ==
    LET r == swarm_sync_coordinate(Deref(res).swarm)
    IN  SwarmCallOf("sync_coordinate", r.swarm, Store("as"), r.ret)

NextCoord ==
    \/ Tick
    \/ \E addr \in AtomAddrs("as"), mem \in {"ok", "no_object"} :
          AddMember(addr, mem)
    \/ Activate
    \/ \E mem \in {"ok", "no_object"} : SyncInitiate(mem)
    \/ SyncCoordinate

SpecCoord == InitCoord /\ [][NextCoord]_vars

(* The coordinator keeps calling swarm_sync_coordinate.                    *)
FairSpecCoord == SpecCoord /\ WF_vars(SyncCoordinate)

(* C38: after swarm_sync_initiate has succeeded on an ACTIVE formation     *)
(* with at least one member, repeated swarm_sync_coordinate calls          *)
(* eventually return the formation to ACTIVE.                              *)
C38_CoordinateReturnsToActive ==
    (/\ Deref(res).op = "sync_initiate"
     /\ Deref(res).ret = 0
     /\ Deref(Deref(res).swarm).member_count >= 1)
        ~> (Deref(Deref(res).swarm).state = SWARM_ACTIVE)

(***************************************************************************)
(* Error recovery (production_monitor.c): the retry limit and the circuit  *)
(* breaker.  t is what time(NULL) returns during the call.                 *)
(***************************************************************************)
error_recovery_create(config) ==
    IF config = NULL THEN NULL
    ELSE Ptr([config                |-> Deref(config),
              consecutive_failures  |-> 0,
              last_failure_time     |-> 0,
              circuit_open_time     |-> 0,
              circuit_open          |-> 0,
              total_errors          |-> 0,
              total_retries         |-> 0,
              total_recoveries      |-> 0,
              circuit_breaker_trips |-> 0])

error_recovery_should_retry(ctx, error_code, t) ==
    IF ctx = NULL THEN [ctx |-> ctx, ret |-> 0]
    ELSE
    LET c == Deref(ctx)
    IN  IF c.circuit_open # 0
           /\ t - c.circuit_open_time < c.config.circuit_breaker_timeout
        THEN [ctx |-> ctx, ret |-> 0]
        ELSE
        LET closed == [c EXCEPT !.circuit_open = 0]
        IN  IF closed.consecutive_failures >= closed.config.max_retries
            THEN [ctx |-> Ptr(closed), ret |-> 0]
            ELSE IF error_code = -1 \/ error_code = -2
            THEN [ctx |-> Ptr(closed), ret |-> 1]
            ELSE [ctx |-> Ptr(closed), ret |-> 0]

error_recovery_record_failure(ctx, t) ==
    IF ctx = NULL THEN ctx
    ELSE
    LET c == [Deref(ctx) EXCEPT !.consecutive_failures = @ + 1,
                                !.total_errors = @ + 1,
                                !.last_failure_time = t]
    IN  IF c.consecutive_failures >= c.config.circuit_breaker_threshold
        THEN Ptr([c EXCEPT !.circuit_open = 1,
                           !.circuit_open_time = t,
                           !.circuit_breaker_trips = @ + 1])
        ELSE Ptr(c)

error_recovery_record_success(ctx) ==
    IF ctx = NULL THEN ctx
    ELSE Ptr([Deref(ctx) EXCEPT
                 !.total_recoveries = IF Deref(ctx).consecutive_failures > 0
                                      THEN @ + 1 ELSE @,
                 !.consecutive_failures = 0,
                 !.circuit_open = 0])

(***************************************************************************)
(* SpecBreaker: an operation fails and succeeds while the clock advances,  *)
(* its caller records the outcomes and asks whether to retry.  res is the  *)
(* context.                                                                *)
(***************************************************************************)
RecoveryConfigSet ==
    {[max_retries |-> r, retry_delay |-> 1, backoff_multiplier |-> 2,
      circuit_breaker_threshold |-> th, circuit_breaker_timeout |-> to] :
        r \in 1..MaxRetries, th \in 1..MaxRetries, to \in 1..(MaxClock - 1)}

InitBreaker ==
    /\ spaces = [st \in StoreIds |-> NULL]
    /\ file = NULL
    /\ now = 0
    /\ wire = NULL
    /\ das = NULL
    /\ next_id = 1
    /\ socks = {}
    /\ \E config \in RecoveryConfigSet :
          res = error_recovery_create(Ptr(config))
    /\ InitLib

BreakerCall(ctx) ==
    /\ res' = ctx
    /\ UNCHANGED <<storeVars, wire, das, next_id, socks, libVars>>

(* error_recovery_should_retry(ctx, error_code) *)
ShouldRetry(error_code) ==
    BreakerCall(error_recovery_should_retry(res, error_code, now).ctx)

(* error_recovery_record_failure(ctx) *)
RecordFailure ==
    /\ Deref(res).total_errors < MaxErrors
    /\ BreakerCall(error_recovery_record_failure(res, now))

(* error_recovery_record_success(ctx) *)
RecordSuccess ==
    /\ Deref(res).total_recoveries < MaxRetries
    /\ BreakerCall(error_recovery_record_success(res))

NextBreaker ==
    \/ Elapse
    \/ \E error_code \in {-2, -1, 0} : ShouldRetry(error_code)
    \/ RecordFailure
    \/ RecordSuccess

SpecBreaker == InitBreaker /\ [][NextBreaker]_vars

(* C39: the circuit opens when the consecutive failures reach              *)
(* circuit_breaker_threshold; while it is open should_retry returns 0      *)
(* until circuit_breaker_timeout has elapsed since it opened, and from     *)
(* then on should_retry returns 1 for the transient errors -1 and -2,      *)
(* whatever max_retries and the threshold are.                             *)
C39_BreakerPermitsRetryAfterTimeout ==
    LET c      == Deref(res)
        failed == Deref(error_recovery_record_failure(res, now))
    IN  /\ failed.consecutive_failures >= c.config.circuit_breaker_threshold
              => failed.circuit_open = 1
        /\ c.circuit_open # 0 =>
              \A error_code \in {-1, -2} :
                 error_recovery_should_retry(res, error_code, now).ret
                    = IF now - c.circuit_open_time
                            < c.config.circuit_breaker_timeout
                      THEN 0 ELSE 1

(***************************************************************************)
(* The rate limiter (production_monitor.c): a token bucket refilled from   *)
(* the time elapsed since last_refill.  t is what time(NULL) returns.      *)
(***************************************************************************)
rate_limiter_create(config, t) ==
    IF config = NULL THEN NULL
    ELSE Ptr([config            |-> Deref(config),
              tokens            |-> Deref(config).max_requests,
              last_refill       |-> t,
              total_requests    |-> 0,
              accepted_requests |-> 0,
              rejected_requests |-> 0])

rate_limiter_refill(limiter, t) ==
    LET elapsed == t - limiter.last_refill
    IN  IF elapsed >= limiter.config.time_window
        THEN [limiter EXCEPT !.tokens = limiter.config.max_requests,
                             !.last_refill = t]
        ELSE IF elapsed > 0
        THEN LET tokens_to_add == (limiter.config.max_requests * elapsed)
                                     \div limiter.config.time_window
             IN  [limiter EXCEPT
                     !.tokens = Min({@ + tokens_to_add,
                                     limiter.config.max_requests}),
                     !.last_refill = t]
        ELSE limiter

rate_limiter_allow(limiter, t) ==
    IF limiter = NULL THEN [limiter |-> limiter, ret |-> 1]
    ELSE
    LET l == [rate_limiter_refill(Deref(limiter), t) EXCEPT
                 !.total_requests = @ + 1]
    IN  IF l.tokens > 0
        THEN [limiter |-> Ptr([l EXCEPT !.tokens = @ - 1,
                                        !.accepted_requests = @ + 1]),
              ret     |-> 1]
        ELSE [limiter |-> Ptr([l EXCEPT !.rejected_requests = @ + 1]),
              ret     |-> 0]

(***************************************************************************)
(* SpecLimiter: a caller polls rate_limiter_allow while the clock          *)
(* advances.  res is the limiter and the result of the last call.  The     *)
(* limiter reads the clock only through now - last_refill and never reads  *)
(* its statistics, so the state keeps the time counted from last_refill    *)
(* and the statistics up to MaxCount; the caller waits at most MaxWindow   *)
(* seconds, a full window, between two calls.                              *)
(***************************************************************************)
RateConfigSet ==
    {[max_requests |-> m, time_window |-> w, burst_size |-> m] :
        m \in 1..MaxRequests, w \in 1..MaxWindow}

Counted(n) == IF n < MaxCount THEN n ELSE MaxCount

FromLastRefill(limiter) ==
    [limiter EXCEPT !.last_refill = 0,
                    !.total_requests = Counted(@),
                    !.accepted_requests = Counted(@),
                    !.rejected_requests = Counted(@)]

InitLimiter ==
    /\ spaces = [st \in StoreIds |-> NULL]
    /\ file = NULL
    /\ now = 0
    /\ wire = NULL
    /\ das = NULL
    /\ next_id = 1
    /\ socks = {}
    /\ \E config \in RateConfigSet :
          res = Ptr([limiter |-> rate_limiter_create(Ptr(config), 0),
                     ret     |-> NULL])
    /\ InitLib

(* a second passes *)
Wait ==
    /\ now - Deref(Deref(res).limiter).last_refill < MaxWindow
    /\ now' = now + 1
    /\ UNCHANGED <<spaces, file, wire, das, next_id, socks, res, libVars>>

(* rate_limiter_allow(limiter) *)
Allow ==
    LET r == rate_limiter_allow(Deref(res).limiter, now)
    IN  /\ res' = Ptr([limiter |-> Ptr(FromLastRefill(Deref(r.limiter))),
                       ret     |-> Ptr(r.ret)])
        /\ now' = now - Deref(r.limiter).last_refill
        /\ UNCHANGED <<spaces, file, wire, das, next_id, socks, libVars>>

NextLimiter == Wait \/ Allow

SpecLimiter == InitLimiter /\ [][NextLimiter]_vars

(* Time keeps advancing and the caller keeps calling.                      *)
FairSpecLimiter == SpecLimiter /\ WF_vars(Wait) /\ WF_vars(Allow)

(* C40: the token count stays within [0, max_requests], and a polling      *)
(* caller is not starved: once a call was refused on an empty bucket, if   *)
(* time keeps advancing and the caller keeps calling rate_limiter_allow,   *)
(* whatever its polling interval, a later call is allowed.                 *)
C40_BoundedAndNoStarvation ==
    /\ [](LET l == Deref(Deref(res).limiter)
          IN  0 <= l.tokens /\ l.tokens <= l.config.max_requests)
    /\ (Deref(Deref(res).limiter).tokens = 0 /\ Deref(res).ret = Ptr(0))
          ~> (Deref(res).ret = Ptr(1))

====
